---- MODULE Spec2Model ----
(***************************************************************************)
(* Model of the quiz backend: the authenticate middleware, the startQuiz   *)
(* and submitQuiz controllers and the question / attempt stores they use.  *)
(* A request occupies a slot and advances one step per resolved await.     *)
(* Numbers the code keeps as floats are kept exact here: `percentage` is   *)
(* the rational num/den (or NaN), and 2-decimal values are integers of     *)
(* hundredths.  Timing fields (time_taken, total_time) and the feedback    *)
(* text are not modelled.                                                  *)
(***************************************************************************)
EXTENDS Integers, Sequences, FiniteSets, TLC

VARIABLES seeding, users, topics, questions, quiz_attempts, user_answers, req

vars == <<seeding, users, topics, questions, quiz_attempts, user_answers, req>>

----------------------------------------------------------------------------
(* Bounds *)

MaxAnswers == 2          \* longest answers array of a general submission
MaxAttempts == 1         \* submissions are accepted while fewer attempts are stored
MaxLong == 10            \* longest answers array of the scoring specification
MaxRepeat == 2           \* repeated submissions are accepted while fewer attempts are stored
MaxWrong == 1            \* wrong answers in a submission for the seeded questions
MaxRuns == 2             \* starts of the server in the seeding specification
MaxHistory == 3          \* submissions of the history specification are accepted while fewer attempts are stored

----------------------------------------------------------------------------
(* Values *)

Slots == {"r1", "r2"}
None == "none"
NoTopic == [id |-> None, name |-> None, slug |-> None, is_active |-> FALSE]

\* topics rows (database.ts: topics table); "archived" is an inactive topic,
\* "data-structures" has no question in the bounded store.
SeedTopics ==
  { [id |-> "t1", name |-> "JavaScript",      slug |-> "javascript",      is_active |-> TRUE],
    [id |-> "t2", name |-> "Aptitude",        slug |-> "aptitude",        is_active |-> TRUE],
    [id |-> "t3", name |-> "Data Structures", slug |-> "data-structures", is_active |-> TRUE],
    [id |-> "t4", name |-> "Archived",        slug |-> "archived",        is_active |-> FALSE] }

Options == <<"o0", "o1", "o2", "o3">>

\* users rows (database.ts: users table) of the two accounts that hold a token
RegisteredUsers ==
  { [id |-> "u1", username |-> "user_one", email |-> "one@quiz.io"],
    [id |-> "u2", username |-> "user_two", email |-> "two@quiz.io"] }

\* questions rows (database.ts: questions table), a bounded sample of the seed
SeedQuestions ==
  { [id |-> "q1", topic_id |-> "t1", question |-> "typeof null", options |-> Options,
     correct_answer |-> 2, difficulty |-> "easy", explanation |-> "e1"],
    [id |-> "q2", topic_id |-> "t1", question |-> "closure", options |-> Options,
     correct_answer |-> 1, difficulty |-> "medium", explanation |-> "e2"],
    [id |-> "q3", topic_id |-> "t2", question |-> "series", options |-> Options,
     correct_answer |-> 2, difficulty |-> "easy", explanation |-> "e3"] }

\* seedData.ts jsQuestions: the ten JavaScript questions, in the order of the
\* file, with their correct_answer and difficulty
JsIds == <<"js1", "js2", "js3", "js4", "js5", "js6", "js7", "js8", "js9", "js10">>
JsCorrect == <<2, 1, 2, 2, 2, 1, 1, 1, 1, 1>>
JsDifficulty ==
  <<"easy", "easy", "medium", "medium", "easy", "hard", "easy", "medium", "medium", "hard">>

\* the questions rows of topic "javascript" after seedDatabase
SeedJsQuestions ==
  { [id |-> JsIds[i], topic_id |-> "t1", question |-> JsIds[i], options |-> Options,
     correct_answer |-> JsCorrect[i], difficulty |-> JsDifficulty[i],
     explanation |-> "e"] : i \in DOMAIN JsIds }

----------------------------------------------------------------------------
(* Numbers: percentage is a float in the code; here it is the exact
   rational num/den, or NaN (0/0) *)

NaN == [nan |-> TRUE, num |-> 0, den |-> 1]

\* mutant of Percentage: the ratio is not multiplied by 100
PercentageFraction(correctCount, totalQuestions) ==
  IF totalQuestions = 0 THEN NaN
  ELSE [nan |-> FALSE, num |-> correctCount, den |-> totalQuestions]

\* (correctCount / totalQuestions) * 100
Percentage(correctCount, totalQuestions) ==
  IF totalQuestions = 0 THEN NaN
  ELSE [nan |-> FALSE, num |-> correctCount * 100, den |-> totalQuestions]

\* mutant of GreaterEq: the comparison written as >
GreaterThan(p, k) == ~p.nan /\ p.num > k * p.den

\* percentage >= k ; every comparison with NaN is false
GreaterEq(p, k) == ~p.nan /\ p.num >= k * p.den

Abs(x) == IF x < 0 THEN -x ELSE x

\* parseFloat(percentage.toFixed(2)), in hundredths. Number.prototype.toFixed:
\* "let n be an integer for which n / 10^f - x is as close to zero as
\* possible; if there are two such n, pick the larger n".
ToFixed2(p) ==
  IF p.nan THEN [nan |-> TRUE, hundredths |-> 0]
  ELSE LET lo == (100 * p.num) \div p.den
           dist(n) == Abs(n * p.den - 100 * p.num)
           n == IF dist(lo + 1) <= dist(lo) THEN lo + 1 ELSE lo
       IN [nan |-> FALSE, hundredths |-> n]

\* the grade chain of submitQuiz
GradeOf(percentage) ==
  IF GreaterEq(percentage, 90) THEN "A+"
  ELSE IF GreaterEq(percentage, 80) THEN "A"
  ELSE IF GreaterEq(percentage, 70) THEN "B+"
  ELSE IF GreaterEq(percentage, 60) THEN "B"
  ELSE IF GreaterEq(percentage, 50) THEN "C"
  ELSE IF GreaterEq(percentage, 40) THEN "D"
  ELSE "F"

----------------------------------------------------------------------------
(* Store access *)

\* mutant of GetTopicBySlug: WHERE slug = $1
GetTopicBySlugAnyStatus(slug) ==
  LET rows == { t \in topics : t.slug = slug }
  IN IF rows = {} THEN NoTopic ELSE CHOOSE t \in rows : TRUE

\* topicModel.getTopicBySlug: WHERE slug = $1 AND is_active = true ; rows[0] || null
GetTopicBySlug(slug) ==
  LET rows == { t \in topics : t.slug = slug /\ t.is_active }
  IN IF rows = {} THEN NoTopic ELSE CHOOSE t \in rows : TRUE

\* mutant of QuestionForQuiz: SELECT *
QuestionSelectAll(q) == q

\* SELECT id, question, options, difficulty
QuestionForQuiz(q) ==
  [id |-> q.id, question |-> q.question, options |-> q.options,
   difficulty |-> q.difficulty]

\* sequences without repetition over the set S, of length n
RECURSIVE Arrangements(_, _)
Arrangements(S, n) ==
  IF n = 0 \/ S = {} THEN { <<>> }
  ELSE UNION { { <<x>> \o rest : rest \in Arrangements(S \ {x}, n - 1) } : x \in S }

Min(a, b) == IF a < b THEN a ELSE b

\* mutant of GetQuestionsForQuiz: the query has no LIMIT
GetQuestionsForQuizNoLimit(qs, topicId, limit) ==
  LET rows == { QuestionForQuiz(q) : q \in { x \in qs : x.topic_id = topicId } }
  IN Arrangements(rows, Cardinality(rows))

\* questionModel.getQuestionsForQuiz over the store qs: the possible results of
\* WHERE topic_id = $1 ORDER BY RANDOM() LIMIT $2   (limit >= 0)
GetQuestionsForQuiz(qs, topicId, limit) ==
  LET rows == { QuestionForQuiz(q) : q \in { x \in qs : x.topic_id = topicId } }
  IN Arrangements(rows, Min(limit, Cardinality(rows)))

\* questionModel.getQuestionsByIds: SELECT * FROM questions WHERE id = ANY($1)
GetQuestionsByIds(ids) == { q \in questions : q.id \in ids }

Range(f) == { f[i] : i \in DOMAIN f }

----------------------------------------------------------------------------
(* Requests *)

Undefined == "undefined"

\* JavaScript falsiness of a string-or-undefined value
Falsy(v) == v \in {Undefined, ""}

\* Authorization header: absent, or a prefix (the first 7 characters) and the rest
NoHeader == [present |-> FALSE, prefix |-> "", token |-> ""]
Header(prefix, token) == [present |-> TRUE, prefix |-> prefix, token |-> token]

\* tokens signed with JWT_SECRET and not expired, with the userId of their payload
SignedTokens == { <<"tok-u1", "u1">>, <<"tok-u2", "u2">> }

NoUser == [userId |-> None]

\* mutant of VerifyToken: the payload is decoded without checking the signature
VerifyTokenUnsigned(token) ==
  IF \E st \in SignedTokens : st[1] = token
  THEN [userId |-> (CHOOSE st \in SignedTokens : st[1] = token)[2]]
  ELSE IF token = "forged" THEN [userId |-> "u1"] ELSE NoUser

\* utils/auth.verifyToken: the payload, or NoUser standing for the thrown Error
VerifyToken(token) ==
  IF \E st \in SignedTokens : st[1] = token
  THEN [userId |-> (CHOOSE st \in SignedTokens : st[1] = token)[2]]
  ELSE NoUser

\* body.answers: undefined, a non-array value, or an array of items
NoAnswers == [kind |-> Undefined, items |-> <<>>]
NotAnArray == [kind |-> "object", items |-> <<>>]
Array(items) == [kind |-> "array", items |-> items]

\* an array element that is null: reading .question_id of it throws a TypeError
NullItem == [isNull |-> TRUE, question_id |-> Undefined, selected_answer |-> 0]
Answer(qid, sel) == [isNull |-> FALSE, question_id |-> qid, selected_answer |-> sel]

NoRes == [status |-> 0, message |-> None, error |-> None]

Idle ==
  [pc |-> "idle", kind |-> None, authorization |-> NoHeader, topic_slug |-> Undefined,
   answers |-> NoAnswers, limit |-> Undefined, user |-> NoUser, topic |-> NoTopic,
   correctCount |-> 0, detailedAnswers |-> <<>>, totalQuestions |-> 0,
   percentage |-> NaN, grade |-> None, attempt_id |-> 0, res |-> NoRes,
   username |-> Undefined, email |-> Undefined, password |-> Undefined,
   body_user_id |-> Undefined]

Set(s, r) == req' = [req EXCEPT ![s] = r]

\* res.status(code).json({success: false, message}) ; the handler returns
Fail(s, code, message) ==
  Set(s, [req[s] EXCEPT !.pc = "done",
                        !.res = [status |-> code, message |-> message, error |-> None]])

\* the catch block of a controller: 500 with error.message
Caught(s, message, error) ==
  Set(s, [req[s] EXCEPT !.pc = "done",
                        !.res = [status |-> 500, message |-> message, error |-> error]])

FailedMessage(kind) ==
  IF kind = "start" THEN "Failed to start quiz"
  ELSE IF kind = "history" THEN "Failed to fetch quiz history"
  ELSE "Failed to submit quiz"

----------------------------------------------------------------------------
(* middleware/auth.authenticate *)

\* POST /api/quiz/submit arrives (quizRoutes: authenticate, submitQuiz)
ReceiveSubmit(s, hdr, slug, answers) ==
  /\ req[s].pc = "idle"
  /\ Set(s, [Idle EXCEPT !.pc = "authenticate", !.kind = "submit",
                         !.authorization = hdr, !.topic_slug = slug,
                         !.answers = answers])
  /\ UNCHANGED <<seeding, users, topics, questions, quiz_attempts, user_answers>>

\* POST /api/quiz/submit with a body that also carries a user_id field
ReceiveSubmitFor(s, hdr, slug, answers, userId) ==
  /\ req[s].pc = "idle"
  /\ Set(s, [Idle EXCEPT !.pc = "authenticate", !.kind = "submit",
                         !.authorization = hdr, !.topic_slug = slug,
                         !.answers = answers, !.body_user_id = userId])
  /\ UNCHANGED <<seeding, users, topics, questions, quiz_attempts, user_answers>>

\* TRUE when authenticate sends 401 for the header
AuthRejects(hdr) ==
  \/ ~hdr.present
  \/ hdr.prefix # "Bearer "
  \/ hdr.token = ""
  \/ VerifyToken(hdr.token) = NoUser

\* mutant of Authenticate: the 401 branches do not return, next() is called
\* after the 401 was sent
AuthenticateNoReturn(s) ==
  /\ req[s].pc = "authenticate"
  /\ IF AuthRejects(req[s].authorization)
     THEN Set(s, [req[s] EXCEPT !.res = [status |-> 401, message |-> "Unauthorized",
                                         error |-> None],
                                !.pc = IF req[s].kind = "history"
                                       THEN "getQuizHistory" ELSE "submitQuiz"])
     ELSE Set(s, [req[s] EXCEPT !.user = VerifyToken(req[s].authorization.token),
                                !.pc = IF req[s].kind = "history"
                                       THEN "getQuizHistory" ELSE "submitQuiz"])
  /\ UNCHANGED <<seeding, users, topics, questions, quiz_attempts, user_answers>>

Authenticate(s) ==
  /\ req[s].pc = "authenticate"
  /\ IF AuthRejects(req[s].authorization)
     THEN Fail(s, 401, "Unauthorized")
     ELSE Set(s, [req[s] EXCEPT !.user = VerifyToken(req[s].authorization.token),
                                !.pc = IF req[s].kind = "history"
                                       THEN "getQuizHistory" ELSE "submitQuiz"])
  /\ UNCHANGED <<seeding, users, topics, questions, quiz_attempts, user_answers>>

----------------------------------------------------------------------------
(* quizController.submitQuiz; each action runs up to the next await *)

\* mutant of InvalidSubmission: the Array.isArray test is left out
InvalidSubmissionNoArrayTest(slug, answers) ==
  \/ Falsy(slug)
  \/ answers.kind = Undefined

\* !topic_slug || !answers || !Array.isArray(answers)
InvalidSubmission(slug, answers) ==
  \/ Falsy(slug)
  \/ answers.kind = Undefined
  \/ answers.kind # "array"

\* the entry of submitQuiz: the req.user check and the input validation
SubmitQuiz(s) ==
  /\ req[s].pc = "submitQuiz"
  /\ IF req[s].user = NoUser
     THEN Fail(s, 401, "Authentication required")
     ELSE IF InvalidSubmission(req[s].topic_slug, req[s].answers)
          THEN Fail(s, 400, "Invalid quiz submission data")
          ELSE Set(s, [req[s] EXCEPT !.pc = "getTopicBySlug"])
  /\ UNCHANGED <<seeding, users, topics, questions, quiz_attempts, user_answers>>

\* getTopicBySlug resolved: the topic check, then answers.map(a => a.question_id)
SubmitTopicResolved(s) ==
  /\ req[s].pc = "getTopicBySlug"
  /\ req[s].kind = "submit"
  /\ LET topic == GetTopicBySlug(req[s].topic_slug)
     IN IF topic = NoTopic
        THEN Fail(s, 404, "Topic not found")
        ELSE IF \E a \in Range(req[s].answers.items) : a.isNull
             THEN Caught(s, FailedMessage("submit"), "TypeError")
             ELSE Set(s, [req[s] EXCEPT !.topic = topic, !.pc = "getQuestionsByIds"])
  /\ UNCHANGED <<seeding, users, topics, questions, quiz_attempts, user_answers>>

\* mutant of IsCorrect: the selected index is taken as 1-based
IsCorrectOneBased(answer, question) ==
  answer.selected_answer = question.correct_answer + 1

\* const isCorrect = answer.selected_answer === question.correct_answer
IsCorrect(answer, question) == answer.selected_answer = question.correct_answer

\* the scoring loop over the answers, against the fetched questions: one
\* record for each answer whose question was fetched, in submission order
DetailedAnswers(items, fetched) ==
  LET matched == SelectSeq(items, LAMBDA a : \E q \in fetched : q.id = a.question_id)
  IN [i \in 1..Len(matched) |->
        LET answer == matched[i]
            question == CHOOSE q \in fetched : q.id = answer.question_id
        IN [question_id |-> question.id,
            question |-> question.question,
            options |-> question.options,
            selected_answer |-> answer.selected_answer,
            correct_answer |-> question.correct_answer,
            is_correct |-> IsCorrect(answer, question),
            explanation |-> question.explanation,
            difficulty |-> question.difficulty]]

\* mutant of CountCorrect: correctCount++ is outside the if (isCorrect)
CountCorrectEveryMatch(detailed) == Len(detailed)

CountCorrect(detailed) ==
  Cardinality({ i \in DOMAIN detailed : detailed[i].is_correct })

\* mutant of TotalQuestions: the number of distinct question ids
TotalQuestionsDistinct(items) ==
  Cardinality({ items[i].question_id : i \in DOMAIN items })

\* mutant of TotalQuestions: the number of answers matched by a stored question
TotalQuestionsMatched(items) ==
  Cardinality({ i \in DOMAIN items : \E q \in questions : q.id = items[i].question_id })

\* const totalQuestions = answers.length
TotalQuestions(items) == Len(items)

\* getQuestionsByIds resolved: scoring, percentage and grade
SubmitScored(s) ==
  /\ req[s].pc = "getQuestionsByIds"
  /\ LET items == req[s].answers.items
         fetched == GetQuestionsByIds({ items[i].question_id : i \in DOMAIN items })
         detailed == DetailedAnswers(items, fetched)
         correctCount == CountCorrect(detailed)
         totalQuestions == TotalQuestions(items)
         percentage == Percentage(correctCount, totalQuestions)
     IN Set(s, [req[s] EXCEPT !.correctCount = correctCount,
                              !.detailedAnswers = detailed,
                              !.totalQuestions = totalQuestions,
                              !.percentage = percentage,
                              !.grade = GradeOf(percentage),
                              !.pc = "createQuizAttempt"])
  /\ UNCHANGED <<seeding, users, topics, questions, quiz_attempts, user_answers>>

\* the value a DECIMAL(5,2) column keeps: rounded to 2 decimals, NaN kept
Decimal52(p) == ToFixed2(p)

\* res.status(200).json({success: true, result: {...}})
Result(r, attemptId) ==
  [status |-> 200,
   result |-> [attempt_id |-> attemptId,
               score |-> r.correctCount,
               total_questions |-> r.totalQuestions,
               percentage |-> ToFixed2(r.percentage),
               grade |-> r.grade,
               answers |-> r.detailedAnswers,
               topic_analysis |-> [topic |-> r.topic.name,
                                   correct |-> r.correctCount,
                                   total |-> r.totalQuestions,
                                   percentage |-> r.percentage]]]

\* number of user_answers rows of an attempt
Saved(attemptId) ==
  Cardinality({ i \in DOMAIN user_answers : user_answers[i].attempt_id = attemptId })

\* mutant of SubmitAttemptCreated: INSERT ... ON CONFLICT (user_id, topic_id)
\* DO UPDATE, the attempt of the user for the topic is overwritten
SubmitAttemptCreatedUpsert(s) ==
  /\ req[s].pc = "createQuizAttempt"
  /\ LET same == { i \in DOMAIN quiz_attempts :
                     /\ quiz_attempts[i].user_id = req[s].user.userId
                     /\ quiz_attempts[i].topic_id = req[s].topic.id }
         id == IF same = {} THEN Len(quiz_attempts) + 1 ELSE CHOOSE i \in same : TRUE
         row == [id |-> id,
                 user_id |-> req[s].user.userId,
                 topic_id |-> req[s].topic.id,
                 score |-> req[s].correctCount,
                 total_questions |-> req[s].totalQuestions,
                 percentage |-> Decimal52(req[s].percentage)]
     IN /\ quiz_attempts' = IF same = {} THEN Append(quiz_attempts, row)
                            ELSE [quiz_attempts EXCEPT ![id] = row]
        /\ Set(s, [req[s] EXCEPT !.attempt_id = id, !.pc = "done",
                                 !.res = Result(req[s], id)])
  /\ UNCHANGED <<seeding, users, topics, questions, user_answers>>

\* mutant of SubmitAttemptCreated: quiz_attempts has UNIQUE (user_id, topic_id),
\* and a second attempt of the user for the topic is rejected by the store
SubmitAttemptCreatedUnique(s) ==
  /\ req[s].pc = "createQuizAttempt"
  /\ LET id == Len(quiz_attempts) + 1
         row == [id |-> id,
                 user_id |-> req[s].user.userId,
                 topic_id |-> req[s].topic.id,
                 score |-> req[s].correctCount,
                 total_questions |-> req[s].totalQuestions,
                 percentage |-> Decimal52(req[s].percentage)]
     IN IF \E i \in DOMAIN quiz_attempts :
             /\ quiz_attempts[i].user_id = row.user_id
             /\ quiz_attempts[i].topic_id = row.topic_id
        THEN /\ Caught(s, FailedMessage("submit"), "duplicate key")
             /\ UNCHANGED quiz_attempts
        ELSE /\ quiz_attempts' = Append(quiz_attempts, row)
             /\ IF req[s].detailedAnswers = <<>>
                THEN Set(s, [req[s] EXCEPT !.attempt_id = id, !.pc = "done",
                                           !.res = Result(req[s], id)])
                ELSE Set(s, [req[s] EXCEPT !.attempt_id = id, !.pc = "saveUserAnswer"])
  /\ UNCHANGED <<seeding, users, topics, questions, user_answers>>

\* mutant of SubmitAttemptCreated: createQuizAttempt is called with
\* req.body.user_id || req.user.userId
SubmitAttemptCreatedBodyUser(s) ==
  /\ req[s].pc = "createQuizAttempt"
  /\ LET id == Len(quiz_attempts) + 1
         row == [id |-> id,
                 user_id |-> IF Falsy(req[s].body_user_id)
                             THEN req[s].user.userId ELSE req[s].body_user_id,
                 topic_id |-> req[s].topic.id,
                 score |-> req[s].correctCount,
                 total_questions |-> req[s].totalQuestions,
                 percentage |-> Decimal52(req[s].percentage)]
     IN /\ quiz_attempts' = Append(quiz_attempts, row)
        /\ IF req[s].detailedAnswers = <<>>
           THEN Set(s, [req[s] EXCEPT !.attempt_id = id, !.pc = "done",
                                      !.res = Result(req[s], id)])
           ELSE Set(s, [req[s] EXCEPT !.attempt_id = id, !.pc = "saveUserAnswer"])
  /\ UNCHANGED <<seeding, users, topics, questions, user_answers>>

\* mutant of SubmitAttemptCreated: the saveUserAnswer calls are not awaited,
\* the response is sent as soon as the attempt is inserted
SubmitAttemptCreatedNoAwait(s) ==
  /\ req[s].pc = "createQuizAttempt"
  /\ LET id == Len(quiz_attempts) + 1
         row == [id |-> id,
                 user_id |-> req[s].user.userId,
                 topic_id |-> req[s].topic.id,
                 score |-> req[s].correctCount,
                 total_questions |-> req[s].totalQuestions,
                 percentage |-> Decimal52(req[s].percentage)]
     IN /\ quiz_attempts' = Append(quiz_attempts, row)
        /\ Set(s, [req[s] EXCEPT !.attempt_id = id, !.pc = "done",
                                 !.res = Result(req[s], id)])
  /\ UNCHANGED <<seeding, users, topics, questions, user_answers>>

\* createQuizAttempt resolved: the row is inserted; with no detailed answer the
\* loop is skipped and the response is sent
SubmitAttemptCreated(s) ==
  /\ req[s].pc = "createQuizAttempt"
  /\ LET id == Len(quiz_attempts) + 1
         row == [id |-> id,
                 user_id |-> req[s].user.userId,
                 topic_id |-> req[s].topic.id,
                 score |-> req[s].correctCount,
                 total_questions |-> req[s].totalQuestions,
                 percentage |-> Decimal52(req[s].percentage)]
     IN /\ quiz_attempts' = Append(quiz_attempts, row)
        /\ IF req[s].detailedAnswers = <<>>
           THEN Set(s, [req[s] EXCEPT !.attempt_id = id, !.pc = "done",
                                      !.res = Result(req[s], id)])
           ELSE Set(s, [req[s] EXCEPT !.attempt_id = id, !.pc = "saveUserAnswer"])
  /\ UNCHANGED <<seeding, users, topics, questions, user_answers>>

\* mutant of SubmitAnswerSaved: the attempt id is read from a variable that the
\* requests share, which holds the id of the attempt created last
SubmitAnswerSavedSharedAttempt(s) ==
  /\ req[s].pc = "saveUserAnswer"
  /\ LET k == Saved(req[s].attempt_id) + 1
         answer == req[s].detailedAnswers[k]
         row == [attempt_id |-> Len(quiz_attempts),
                 question_id |-> answer.question_id,
                 selected_answer |-> answer.selected_answer,
                 is_correct |-> answer.is_correct]
     IN /\ user_answers' = Append(user_answers, row)
        /\ IF k = Len(req[s].detailedAnswers)
           THEN Set(s, [req[s] EXCEPT !.pc = "done",
                                      !.res = Result(req[s], req[s].attempt_id)])
           ELSE UNCHANGED req
  /\ UNCHANGED <<seeding, users, topics, questions, quiz_attempts>>

\* one saveUserAnswer resolved: the row is inserted; after the last one the
\* response is sent
SubmitAnswerSaved(s) ==
  /\ req[s].pc = "saveUserAnswer"
  /\ LET k == Saved(req[s].attempt_id) + 1
         answer == req[s].detailedAnswers[k]
         row == [attempt_id |-> req[s].attempt_id,
                 question_id |-> answer.question_id,
                 selected_answer |-> answer.selected_answer,
                 is_correct |-> answer.is_correct]
     IN /\ user_answers' = Append(user_answers, row)
        /\ IF k = Len(req[s].detailedAnswers)
           THEN Set(s, [req[s] EXCEPT !.pc = "done",
                                      !.res = Result(req[s], req[s].attempt_id)])
           ELSE UNCHANGED req
  /\ UNCHANGED <<seeding, users, topics, questions, quiz_attempts>>

\* mutant of QueryFails: the controller has no try/catch, the rejection is
\* unhandled and nothing is sent
QueryFailsUnhandled(s) ==
  /\ req[s].pc \in {"getTopicBySlug", "getQuestionsByIds", "getQuestionsForQuiz",
                    "createQuizAttempt", "saveUserAnswer", "getUserQuizHistory"}
  /\ Set(s, [req[s] EXCEPT !.pc = "unhandledRejection"])
  /\ UNCHANGED <<seeding, users, topics, questions, quiz_attempts, user_answers>>

\* mutant of QueryFails: the inserts of a submission run in a transaction that
\* the catch block rolls back
QueryFailsRollback(s) ==
  /\ req[s].pc \in {"getTopicBySlug", "getQuestionsByIds", "getQuestionsForQuiz",
                    "createQuizAttempt", "saveUserAnswer", "getUserQuizHistory"}
  /\ Caught(s, FailedMessage(req[s].kind), "query failed")
  /\ quiz_attempts' =
       SelectSeq(quiz_attempts, LAMBDA row : row.id # req[s].attempt_id)
  /\ user_answers' =
       SelectSeq(user_answers, LAMBDA row : row.attempt_id # req[s].attempt_id)
  /\ UNCHANGED <<seeding, users, topics, questions>>

\* a pending query rejects: the catch block answers 500
QueryFails(s) ==
  /\ req[s].pc \in {"getTopicBySlug", "getQuestionsByIds", "getQuestionsForQuiz",
                    "createQuizAttempt", "saveUserAnswer", "getUserQuizHistory"}
  /\ Caught(s, FailedMessage(req[s].kind), "query failed")
  /\ UNCHANGED <<seeding, users, topics, questions, quiz_attempts, user_answers>>

----------------------------------------------------------------------------
(* quizController.startQuiz *)

\* parseInt of the query strings the model sends; anything else parses to NaN
ParsedInt == ("0" :> 0) @@ ("1" :> 1) @@ ("2" :> 2) @@ ("3" :> 3) @@ ("-1" :> -1)

DefaultLimit == 10

\* parseInt(req.query.limit as string) || 10
ParseLimit(v) ==
  IF v \in DOMAIN ParsedInt /\ ParsedInt[v] # 0 THEN ParsedInt[v] ELSE DefaultLimit

TimePerQuestion == 30

\* GET /api/quiz/start/:topicSlug arrives (no middleware); runs to the first await
ReceiveStart(s, slug, limit) ==
  /\ req[s].pc = "idle"
  /\ Set(s, [Idle EXCEPT !.pc = "getTopicBySlug", !.kind = "start",
                         !.topic_slug = slug, !.limit = limit])
  /\ UNCHANGED <<seeding, users, topics, questions, quiz_attempts, user_answers>>

StartTopicResolved(s) ==
  /\ req[s].pc = "getTopicBySlug"
  /\ req[s].kind = "start"
  /\ LET topic == GetTopicBySlug(req[s].topic_slug)
     IN IF topic = NoTopic
        THEN Fail(s, 404, "Topic not found")
        ELSE Set(s, [req[s] EXCEPT !.topic = topic, !.pc = "getQuestionsForQuiz"])
  /\ UNCHANGED <<seeding, users, topics, questions, quiz_attempts, user_answers>>

\* the 200 body of startQuiz
StartResponse(topic, rows) ==
  [status |-> 200,
   topic |-> [id |-> topic.id, name |-> topic.name, slug |-> topic.slug],
   questions |-> rows,
   total_questions |-> Len(rows),
   time_per_question |-> TimePerQuestion]

\* mutant of StartResponses: the questions.length === 0 test is left out
StartResponsesNoEmptyTest(qs, topic, limit) ==
  { StartResponse(topic, rows) : rows \in GetQuestionsForQuiz(qs, topic.id, limit) }

\* the responses startQuiz can send for a resolved topic over the store qs
StartResponses(qs, topic, limit) ==
  { IF rows = <<>>
    THEN [status |-> 404, message |-> "No questions available for this topic",
          error |-> None]
    ELSE StartResponse(topic, rows) :
      rows \in GetQuestionsForQuiz(qs, topic.id, limit) }

\* getQuestionsForQuiz resolved (LIMIT with a negative count is rejected by the store)
StartQuestionsIssued(s) ==
  /\ req[s].pc = "getQuestionsForQuiz"
  /\ LET limit == ParseLimit(req[s].limit)
     IN IF limit < 0
        THEN Caught(s, FailedMessage("start"), "query failed")
        ELSE \E res \in StartResponses(questions, req[s].topic, limit) :
               Set(s, [req[s] EXCEPT !.pc = "done", !.res = res])
  /\ UNCHANGED <<seeding, users, topics, questions, quiz_attempts, user_answers>>

\* the connection of an answered request is closed and the slot is free again
Close(s) ==
  /\ req[s].pc = "done"
  /\ Set(s, Idle)
  /\ UNCHANGED <<seeding, users, topics, questions, quiz_attempts, user_answers>>

----------------------------------------------------------------------------
(* quizController.getQuizHistory *)

\* completed_at TIMESTAMP DEFAULT CURRENT_TIMESTAMP: the clock reading of the
\* insert; the inserts are serialised by the store and each reads a later clock
CompletedAt(row) == row.id

\* qa.* with t.name, t.slug of JOIN topics t ON qa.topic_id = t.id
HistoryRow(row) ==
  LET t == CHOOSE t \in topics : t.id = row.topic_id
  IN [id |-> row.id, user_id |-> row.user_id, topic_id |-> row.topic_id,
      score |-> row.score, total_questions |-> row.total_questions,
      percentage |-> row.percentage, completed_at |-> CompletedAt(row),
      topic_name |-> t.name, topic_slug |-> t.slug]

\* the rows of quiz_attempts that WHERE qa.user_id = $1 and the JOIN keep
AttemptsOfUser(userId) ==
  { quiz_attempts[i] : i \in { j \in DOMAIN quiz_attempts :
      /\ quiz_attempts[j].user_id = userId
      /\ \E t \in topics : t.id = quiz_attempts[j].topic_id } }

\* mutant of GetUserQuizHistory: ORDER BY qa.completed_at ASC
GetUserQuizHistoryAscending(userId, limit) ==
  LET own == AttemptsOfUser(userId)
      n == Min(limit, Cardinality(own))
  IN [k \in 1..n |->
        HistoryRow(CHOOSE r \in own :
          Cardinality({ x \in own : CompletedAt(x) < CompletedAt(r) }) = k - 1)]

\* quizModel.getUserQuizHistory: ORDER BY qa.completed_at DESC LIMIT $2
GetUserQuizHistory(userId, limit) ==
  LET own == AttemptsOfUser(userId)
      n == Min(limit, Cardinality(own))
  IN [k \in 1..n |->
        HistoryRow(CHOOSE r \in own :
          Cardinality({ x \in own : CompletedAt(x) > CompletedAt(r) }) = k - 1)]

\* GET /api/quiz/history arrives (quizRoutes: authenticate, getQuizHistory)
ReceiveHistory(s, hdr, limit) ==
  /\ req[s].pc = "idle"
  /\ Set(s, [Idle EXCEPT !.pc = "authenticate", !.kind = "history",
                         !.authorization = hdr, !.limit = limit])
  /\ UNCHANGED <<seeding, users, topics, questions, quiz_attempts, user_answers>>

\* the controller up to its await: 401 without req.user, else the query is issued
GetQuizHistory(s) ==
  /\ req[s].pc = "getQuizHistory"
  /\ IF req[s].user = NoUser
     THEN Fail(s, 401, "Authentication required")
     ELSE Set(s, [req[s] EXCEPT !.pc = "getUserQuizHistory"])
  /\ UNCHANGED <<seeding, users, topics, questions, quiz_attempts, user_answers>>

\* getUserQuizHistory resolved; the store rejects a negative LIMIT
HistoryFetched(s) ==
  /\ req[s].pc = "getUserQuizHistory"
  /\ LET limit == ParseLimit(req[s].limit)
     IN IF limit < 0
        THEN Caught(s, FailedMessage(req[s].kind), "query failed")
        ELSE LET history == GetUserQuizHistory(req[s].user.userId, limit)
             IN Set(s, [req[s] EXCEPT !.pc = "done",
                          !.res = [status |-> 200, count |-> Len(history),
                                   history |-> history]])
  /\ UNCHANGED <<seeding, users, topics, questions, quiz_attempts, user_answers>>

----------------------------------------------------------------------------
(* startServer and utils/seedData.seedDatabase; each action runs up to the
   next await *)

\* the topics array of seedDatabase, in the order of the file
SeedTopicList ==
  << [name |-> "JavaScript", slug |-> "javascript"],
     [name |-> "Aptitude", slug |-> "aptitude"],
     [name |-> "General Knowledge", slug |-> "general-knowledge"],
     [name |-> "Data Structures", slug |-> "data-structures"] >>

\* correct_answer and difficulty of jsQuestions, aptQuestions, gkQuestions and
\* dsQuestions, in the order of the file
SeedCorrect ==
  << JsCorrect,
     <<2, 2, 2, 2, 2, 2, 1, 1, 1, 1>>,
     <<2, 1, 3, 2, 1, 1, 2, 2, 0, 1>>,
     <<1, 1, 2, 1, 3, 2, 2, 1, 2, 1>> >>

SeedDifficulty ==
  << JsDifficulty,
     <<"easy", "easy", "medium", "medium", "easy", "hard", "easy", "medium", "medium", "hard">>,
     <<"easy", "easy", "easy", "medium", "medium", "easy", "easy", "easy", "medium", "medium">>,
     <<"medium", "easy", "medium", "easy", "medium", "hard", "hard", "medium", "medium", "easy">> >>

QuestionsPerTopic == 10

\* the process of startServer: its pending await, the number of starts so far,
\* and the number of questions the running seedDatabase has inserted
Stopped == [pc |-> "stopped", runs |-> 0, inserted |-> 0]

\* the server listens on a store that was seeded by an earlier start
Listening == [pc |-> "listening", runs |-> 1, inserted |-> 0]

\* the process is started: initializeDatabase (CREATE TABLE IF NOT EXISTS)
\* leaves the rows alone, seedDatabase issues SELECT COUNT(*) FROM topics
StartServer ==
  /\ seeding.pc = "stopped"
  /\ seeding.runs < MaxRuns
  /\ seeding' = [pc |-> "countTopics", runs |-> seeding.runs + 1, inserted |-> 0]
  /\ UNCHANGED <<users, topics, questions, quiz_attempts, user_answers, req>>

\* the count is read: with a topic in the store the run returns and the server
\* listens
SeedCounted ==
  /\ seeding.pc = "countTopics"
  /\ seeding' = [seeding EXCEPT !.pc = IF Cardinality(topics) > 0
                                       THEN "listening" ELSE "insertTopic"]
  /\ UNCHANGED <<users, topics, questions, quiz_attempts, user_answers, req>>

\* one INSERT INTO topics resolved; after the last one the ids are selected
SeedTopicInserted ==
  /\ seeding.pc = "insertTopic"
  /\ LET k == Cardinality(topics) + 1
         row == [id |-> k, name |-> SeedTopicList[k].name,
                 slug |-> SeedTopicList[k].slug, is_active |-> TRUE]
     IN /\ topics' = topics \cup {row}
        /\ seeding' = [seeding EXCEPT !.pc = IF k = Len(SeedTopicList)
                                             THEN "selectTopicIds" ELSE "insertTopic"]
  /\ UNCHANGED <<users, questions, quiz_attempts, user_answers, req>>

\* the four SELECT id FROM topics WHERE slug = ... resolved
SeedTopicIdsSelected ==
  /\ seeding.pc = "selectTopicIds"
  /\ seeding' = [seeding EXCEPT !.pc = "insertQuestion"]
  /\ UNCHANGED <<users, topics, questions, quiz_attempts, user_answers, req>>

\* one INSERT INTO questions resolved, in the order js, apt, gk, ds; after the
\* last one seedDatabase returns and the server listens
SeedQuestionInserted ==
  /\ seeding.pc = "insertQuestion"
  /\ LET n == seeding.inserted + 1
         k == ((n - 1) \div QuestionsPerTopic) + 1
         i == ((n - 1) % QuestionsPerTopic) + 1
         topic == CHOOSE t \in topics : t.slug = SeedTopicList[k].slug
         row == [id |-> Cardinality(questions) + 1, topic_id |-> topic.id,
                 question |-> <<SeedTopicList[k].slug, i>>, options |-> Options,
                 correct_answer |-> SeedCorrect[k][i],
                 difficulty |-> SeedDifficulty[k][i], explanation |-> "e"]
     IN /\ questions' = questions \cup {row}
        /\ seeding' = [seeding EXCEPT
                         !.inserted = n,
                         !.pc = IF n = Len(SeedTopicList) * QuestionsPerTopic
                                THEN "listening" ELSE "insertQuestion"]
  /\ UNCHANGED <<users, topics, quiz_attempts, user_answers, req>>

\* a query of seedDatabase rejects: the error is rethrown and startServer
\* exits the process
SeedFails ==
  /\ seeding.pc \in {"countTopics", "insertTopic", "selectTopicIds", "insertQuestion"}
  /\ seeding' = [seeding EXCEPT !.pc = "stopped"]
  /\ UNCHANGED <<users, topics, questions, quiz_attempts, user_answers, req>>

\* the listening server is stopped
StopServer ==
  /\ seeding.pc = "listening"
  /\ seeding' = [seeding EXCEPT !.pc = "stopped"]
  /\ UNCHANGED <<users, topics, questions, quiz_attempts, user_answers, req>>

----------------------------------------------------------------------------
(* authController.signup *)

\* utils/auth.isValidEmail, isValidUsername, isValidPassword on the strings the
\* model sends: "alice-at-quiz.io" has no @, "ab" is shorter than 3, "password"
\* has no uppercase letter and no digit
IsValidEmail(email) == email \in {"one@quiz.io", "alice@quiz.io", "bob@quiz.io"}
IsValidUsername(username) == username \in {"user_one", "alice", "bob_2"}
IsValidPassword(password) == password \in {"Passw0rd"}

\* the ids gen_random_uuid gives to the rows of users, in the order of insertion
UserIds == <<"u1", "u2", "u3", "u4", "u5">>

\* SELECT EXISTS(SELECT 1 FROM users WHERE email = $1)
EmailExists(email) == \E u \in users : u.email = email

\* SELECT EXISTS(SELECT 1 FROM users WHERE username = $1)
UsernameExists(username) == \E u \in users : u.username = username

\* POST /api/auth/signup arrives; the input validation runs up to the first await
ReceiveSignup(s, username, email, password) ==
  /\ req[s].pc = "idle"
  /\ LET r == [Idle EXCEPT !.kind = "signup", !.username = username,
                           !.email = email, !.password = password]
         bad(message) ==
           [r EXCEPT !.pc = "done",
                     !.res = [status |-> 400, message |-> message, error |-> None]]
     IN Set(s, IF Falsy(username) \/ Falsy(email) \/ Falsy(password)
               THEN bad("Username, email, and password are required")
               ELSE IF ~IsValidEmail(email) THEN bad("Invalid email format")
               ELSE IF ~IsValidUsername(username) THEN bad("Invalid username")
               ELSE IF ~IsValidPassword(password)
                    THEN bad("Password does not meet requirements")
               ELSE [r EXCEPT !.pc = "emailExists"])
  /\ UNCHANGED <<seeding, users, topics, questions, quiz_attempts, user_answers>>

\* emailExists resolved
SignupEmailChecked(s) ==
  /\ req[s].pc = "emailExists"
  /\ IF EmailExists(req[s].email)
     THEN Fail(s, 409, "Email already registered")
     ELSE Set(s, [req[s] EXCEPT !.pc = "usernameExists"])
  /\ UNCHANGED <<seeding, users, topics, questions, quiz_attempts, user_answers>>

\* usernameExists resolved
SignupUsernameChecked(s) ==
  /\ req[s].pc = "usernameExists"
  /\ IF UsernameExists(req[s].username)
     THEN Fail(s, 409, "Username already taken")
     ELSE Set(s, [req[s] EXCEPT !.pc = "hashPassword"])
  /\ UNCHANGED <<seeding, users, topics, questions, quiz_attempts, user_answers>>

\* bcrypt.hash resolved
SignupPasswordHashed(s) ==
  /\ req[s].pc = "hashPassword"
  /\ Set(s, [req[s] EXCEPT !.pc = "createUser"])
  /\ UNCHANGED <<seeding, users, topics, questions, quiz_attempts, user_answers>>

\* createUser resolved: INSERT INTO users; username and email are UNIQUE, a
\* duplicate is rejected by the store and the catch block answers 500;
\* otherwise 201 with the sanitized user and a token for it
SignupUserCreated(s) ==
  /\ req[s].pc = "createUser"
  /\ IF EmailExists(req[s].email) \/ UsernameExists(req[s].username)
     THEN /\ Caught(s, "Server error during signup", "duplicate key")
          /\ UNCHANGED users
     ELSE LET row == [id |-> UserIds[Cardinality(users) + 1],
                      username |-> req[s].username, email |-> req[s].email]
          IN /\ users' = users \cup {row}
             /\ Set(s, [req[s] EXCEPT !.pc = "done",
                          !.res = [status |-> 201, user |-> row,
                                   token |-> [userId |-> row.id]]])
  /\ UNCHANGED <<seeding, topics, questions, quiz_attempts, user_answers>>

\* a pending query of signup rejects: the catch block answers 500
SignupQueryFails(s) ==
  /\ req[s].pc \in {"emailExists", "usernameExists", "createUser"}
  /\ Caught(s, "Server error during signup", "query failed")
  /\ UNCHANGED <<seeding, users, topics, questions, quiz_attempts, user_answers>>

----------------------------------------------------------------------------
(* Inputs *)

\* the four headers authenticate rejects, and the token of user u1
Headers ==
  { NoHeader, Header("Basic a", "bc"), Header("Bearer ", ""), Header("Bearer ", "forged"),
    Header("Bearer ", "tok-u1") }

StartSlugs == { "javascript", "aptitude", "data-structures", "archived", "nosuch" }
Limits == { Undefined, "abc", "0", "1", "2", "3", "-1" }

\* q1 answered right and wrong, q3 of another topic, qx unknown to the store
AnswerItems == { Answer("q1", 2), Answer("q1", 1), Answer("q3", 2), Answer("qx", 1) }

RECURSIVE SeqsUpTo(_, _)
SeqsUpTo(S, n) ==
  IF n = 0 THEN { <<>> }
  ELSE LET shorter == SeqsUpTo(S, n - 1)
       IN shorter \cup { Append(q, x) : q \in { y \in shorter : Len(y) = n - 1 }, x \in S }

Body(slug, answers) == [topic_slug |-> slug, answers |-> answers]

\* every answers value for the topic "javascript", and the ways a body can be
\* rejected before scoring
Bodies ==
  { Body("javascript", a) :
      a \in { NoAnswers, NotAnArray, Array(<<NullItem>>) }
              \cup { Array(items) : items \in SeqsUpTo(AnswerItems, MaxAnswers) } }
    \cup { Body(slug, a) :
             slug \in { Undefined, "", "archived", "nosuch" },
             a \in { NoAnswers, NotAnArray, Array(<<>>), Array(<<Answer("q1", 2)>>) } }

\* k right answers, w wrong answers and u unknown ids, in that order
Mixed(k, w, u) ==
  [i \in 1..(k + w + u) |->
     IF i <= k THEN Answer("q1", 2)
     ELSE IF i <= k + w THEN Answer("q2", 2) ELSE Answer("qx", 1)]

LongBodies ==
  { Body("javascript", Array(Mixed(k, w, u))) :
      k \in 0..MaxLong, w \in 0..MaxLong, u \in 0..1 }

\* one answer per seeded JavaScript question, in the order of the seed or in
\* the reverse order, right except for the questions with an index in wrong,
\* for which the next option is selected
SeededAnswers(wrong, reversed) ==
  [k \in DOMAIN JsIds |->
     LET i == IF reversed THEN Len(JsIds) + 1 - k ELSE k
     IN Answer(JsIds[i], IF i \in wrong THEN (JsCorrect[i] + 1) % 4 ELSE JsCorrect[i])]

SeededBodies ==
  { Body("javascript", Array(SeededAnswers(wrong, reversed))) :
      wrong \in { w \in SUBSET DOMAIN JsIds : Cardinality(w) <= MaxWrong },
      reversed \in BOOLEAN }

SignupBody(username, email, password) ==
  [username |-> username, email |-> email, password |-> password]

\* signups with valid fields, for a registered name or address and for new
\* ones, and one signup for each validation that can fail
SignupBodies ==
  { SignupBody(u, e, "Passw0rd") :
      u \in {"user_one", "alice", "bob_2"},
      e \in {"one@quiz.io", "alice@quiz.io", "bob@quiz.io"} }
    \cup { SignupBody(Undefined, "alice@quiz.io", "Passw0rd"),
           SignupBody("alice", "alice-at-quiz.io", "Passw0rd"),
           SignupBody("ab", "alice@quiz.io", "Passw0rd"),
           SignupBody("alice", "one@quiz.io", "password") }

\* the header of the user whose submissions are repeated
RepeatHeader == Header("Bearer ", "tok-u1")

\* answers arrays that are submitted more than once: empty, one right answer,
\* a repeated question id, a wrong answer with an unknown id
RepeatBodies ==
  { Body("javascript", Array(items)) :
      items \in { <<>>, <<Answer("q1", 2)>>, <<Answer("q1", 2), Answer("q1", 2)>>,
                  <<Answer("q1", 1), Answer("qx", 1)>> } }

----------------------------------------------------------------------------
(* Specifications *)

Init ==
  /\ seeding = Listening
  /\ users = RegisteredUsers
  /\ topics = SeedTopics
  /\ questions = SeedQuestions
  /\ quiz_attempts = <<>>
  /\ user_answers = <<>>
  /\ req = [s \in Slots |-> Idle]

Quiet == \A s \in Slots : req[s].pc = "idle"

SubmitStep(s) ==
  \/ Authenticate(s)
  \/ SubmitQuiz(s)
  \/ SubmitTopicResolved(s)
  \/ SubmitScored(s)
  \/ SubmitAttemptCreated(s)
  \/ SubmitAnswerSaved(s)
  \/ QueryFails(s)
  \/ Close(s)

\* POST /api/quiz/submit, one request at a time, over the general inputs
Next ==
  \/ \E hdr \in Headers, body \in Bodies :
       /\ Quiet
       /\ Len(quiz_attempts) < MaxAttempts
       /\ ReceiveSubmit("r1", hdr, body.topic_slug, body.answers)
  \/ \E s \in Slots : SubmitStep(s)

Spec == Init /\ [][Next]_vars

\* POST /api/quiz/submit of one user over the repeated inputs, the requests of
\* the two slots running concurrently, and GET /api/quiz/start beside them
NextRepeat ==
  \/ \E s \in Slots, body \in RepeatBodies :
       /\ Len(quiz_attempts) < MaxRepeat
       /\ ReceiveSubmit(s, RepeatHeader, body.topic_slug, body.answers)
  \/ ReceiveStart("r2", "javascript", Undefined)
  \/ \E s \in Slots :
       SubmitStep(s) \/ StartTopicResolved(s) \/ StartQuestionsIssued(s)

SpecRepeat == Init /\ [][NextRepeat]_vars

\* GET /api/quiz/start/:topicSlug, requests running concurrently
NextStart ==
  \/ \E s \in Slots, slug \in StartSlugs, limit \in Limits : ReceiveStart(s, slug, limit)
  \/ \E s \in Slots :
       StartTopicResolved(s) \/ StartQuestionsIssued(s) \/ QueryFails(s) \/ Close(s)

SpecStart == Init /\ [][NextStart]_vars

\* one authenticated submission for "javascript" with a long answers array,
\* received in the initial state
InitScoring ==
  /\ seeding = Listening
  /\ users = RegisteredUsers
  /\ topics = SeedTopics
  /\ questions = SeedQuestions
  /\ quiz_attempts = <<>>
  /\ user_answers = <<>>
  /\ \E body \in LongBodies :
       /\ Len(body.answers.items) \in 1..MaxLong
       /\ req = [s \in Slots |->
                   IF s = "r1"
                   THEN [Idle EXCEPT !.pc = "authenticate", !.kind = "submit",
                                     !.authorization = Header("Bearer ", "tok-u1"),
                                     !.topic_slug = body.topic_slug,
                                     !.answers = body.answers]
                   ELSE Idle]

NextScoring == \E s \in Slots : SubmitStep(s)

SpecScoring == InitScoring /\ [][NextScoring]_vars

\* the seeded JavaScript questions, and one authenticated submission with an
\* answer for each of them, received in the initial state
InitSeeded ==
  /\ seeding = Listening
  /\ users = RegisteredUsers
  /\ topics = SeedTopics
  /\ questions = SeedJsQuestions
  /\ quiz_attempts = <<>>
  /\ user_answers = <<>>
  /\ \E body \in SeededBodies :
       req = [s \in Slots |->
                IF s = "r1"
                THEN [Idle EXCEPT !.pc = "authenticate", !.kind = "submit",
                                  !.authorization = Header("Bearer ", "tok-u1"),
                                  !.topic_slug = body.topic_slug,
                                  !.answers = body.answers]
                ELSE Idle]

NextSeeded == \E s \in Slots : SubmitStep(s)

SpecSeeded == InitSeeded /\ [][NextSeeded]_vars

\* the server process started on an empty store, stopped and started again
InitSeeding ==
  /\ seeding = Stopped
  /\ users = {}
  /\ topics = {}
  /\ questions = {}
  /\ quiz_attempts = <<>>
  /\ user_answers = <<>>
  /\ req = [s \in Slots |-> Idle]

NextSeeding ==
  \/ StartServer
  \/ SeedCounted
  \/ SeedTopicInserted
  \/ SeedTopicIdsSelected
  \/ SeedQuestionInserted
  \/ SeedFails
  \/ StopServer

SpecSeeding == InitSeeding /\ [][NextSeeding]_vars

\* answers arrays whose percentage is at or just below the band limit of 70:
\* 7 right answers of 10, 1402 right answers of 2003 (69.995...)
BoundaryBodies ==
  { Body("javascript", Array(Mixed(7, 0, 3))),
    Body("javascript", Array(Mixed(1402, 0, 601))) }

\* one authenticated submission with an answers array of BoundaryBodies,
\* received in the initial state
InitBoundary ==
  /\ seeding = Listening
  /\ users = RegisteredUsers
  /\ topics = SeedTopics
  /\ questions = SeedQuestions
  /\ quiz_attempts = <<>>
  /\ user_answers = <<>>
  /\ \E body \in BoundaryBodies :
       req = [s \in Slots |->
                IF s = "r1"
                THEN [Idle EXCEPT !.pc = "authenticate", !.kind = "submit",
                                  !.authorization = Header("Bearer ", "tok-u1"),
                                  !.topic_slug = body.topic_slug,
                                  !.answers = body.answers]
                ELSE Idle]

NextBoundary == \E s \in Slots : SubmitStep(s)

SpecBoundary == InitBoundary /\ [][NextBoundary]_vars

\* the user_id field of a request body: absent, or the id of a registered user
BodyUserIds == {Undefined, "u1", "u2"}

\* POST /api/quiz/submit with a user_id in the body: the token of u1 in slot
\* r1, the token of u2 or a forged token in slot r2, running concurrently
NextOwner ==
  \/ \E userId \in BodyUserIds :
       /\ Len(quiz_attempts) < MaxRepeat
       /\ ReceiveSubmitFor("r1", Header("Bearer ", "tok-u1"), "javascript",
                           Array(<<Answer("q1", 2)>>), userId)
  \/ \E token \in {"tok-u2", "forged"}, userId \in BodyUserIds :
       /\ Len(quiz_attempts) < MaxRepeat
       /\ ReceiveSubmitFor("r2", Header("Bearer ", token), "javascript",
                           Array(<<Answer("q1", 2)>>), userId)
  \/ \E s \in Slots : SubmitStep(s)

SpecOwner == Init /\ [][NextOwner]_vars

\* the headers of the two registered users
UserHeaders == { Header("Bearer ", "tok-u1"), Header("Bearer ", "tok-u2") }

HistoryBodies ==
  { Body("javascript", Array(items)) : items \in { <<>>, <<Answer("q1", 2)>> } }

HistoryLimits == {Undefined, "0", "1", "2", "-1"}

\* POST /api/quiz/submit of two users in slot r1 and GET /api/quiz/history in
\* slot r2, running concurrently
NextHistory ==
  \/ \E hdr \in UserHeaders, body \in HistoryBodies :
       /\ Len(quiz_attempts) < MaxHistory
       /\ ReceiveSubmit("r1", hdr, body.topic_slug, body.answers)
  \/ \E hdr \in UserHeaders \cup {NoHeader}, limit \in HistoryLimits :
       ReceiveHistory("r2", hdr, limit)
  \/ \E s \in Slots : SubmitStep(s) \/ GetQuizHistory(s) \/ HistoryFetched(s)

SpecHistory == Init /\ [][NextHistory]_vars

\* a submission received in slot r1 and a start request received in slot r2,
\* both in flight in the initial state
InitServing ==
  /\ seeding = Listening
  /\ users = RegisteredUsers
  /\ topics = SeedTopics
  /\ questions = SeedQuestions
  /\ quiz_attempts = <<>>
  /\ user_answers = <<>>
  /\ \E hdr \in {NoHeader, RepeatHeader}, body \in RepeatBodies,
        slug \in StartSlugs, limit \in Limits :
       req = [s \in Slots |->
                IF s = "r1"
                THEN [Idle EXCEPT !.pc = "authenticate", !.kind = "submit",
                                  !.authorization = hdr,
                                  !.topic_slug = body.topic_slug,
                                  !.answers = body.answers]
                ELSE [Idle EXCEPT !.pc = "getTopicBySlug", !.kind = "start",
                                  !.topic_slug = slug, !.limit = limit]]

\* the steps of the request of a slot up to its response
Serve(s) ==
  \/ Authenticate(s)
  \/ SubmitQuiz(s)
  \/ SubmitTopicResolved(s)
  \/ SubmitScored(s)
  \/ SubmitAttemptCreated(s)
  \/ SubmitAnswerSaved(s)
  \/ StartTopicResolved(s)
  \/ StartQuestionsIssued(s)
  \/ QueryFails(s)

NextServing == \E s \in Slots : Serve(s) \/ Close(s)

\* every query settles (it resolves or it rejects) and the event loop runs the
\* continuation of every settled await
SpecServing ==
  InitServing /\ [][NextServing]_vars /\ \A s \in Slots : WF_vars(Serve(s))

\* POST /api/auth/signup, the requests of the two slots running concurrently
NextSignup ==
  \/ \E s \in Slots, body \in SignupBodies :
       ReceiveSignup(s, body.username, body.email, body.password)
  \/ \E s \in Slots :
       \/ SignupEmailChecked(s)
       \/ SignupUsernameChecked(s)
       \/ SignupPasswordHashed(s)
       \/ SignupUserCreated(s)
       \/ SignupQueryFails(s)
       \/ Close(s)

SpecSignup == Init /\ [][NextSignup]_vars

----------------------------------------------------------------------------
(* Properties *)

Answered(s, code) == req[s].pc = "done" /\ req[s].res.status = code

Submitted200(s) == req[s].kind = "submit" /\ Answered(s, 200)

\* the request was answered by the catch block after a query rejected
QueryFailed(s) == Answered(s, 500) /\ req[s].res.error = "query failed"

\* the stored question with the id (the id is the primary key)
QuestionOf(qid) == CHOOSE q \in questions : q.id = qid

Stored(qid) == \E q \in questions : q.id = qid

\* the submitted answers whose question id is in the store, in submission order
MatchedItems(items) == SelectSeq(items, LAMBDA a : Stored(a.question_id))

\* C1: every 200 result of submitQuiz has 0 <= score <= total_questions, for
\* every answers array, unknown and repeated question ids included.
C1_ScoreWithinTotal ==
  \A s \in Slots :
    Submitted200(s) =>
      LET r == req[s].res.result
      IN 0 <= r.score /\ r.score <= r.total_questions

\* a 200 result for an array that repeats a question id, both answers right
C1_Witness ==
  \E s \in Slots :
    /\ Submitted200(s)
    /\ Len(req[s].answers.items) = 2
    /\ req[s].answers.items[1].question_id = req[s].answers.items[2].question_id
    /\ req[s].res.result.score = 2

\* an authenticated submission for an active topic with answers = []
EmptySubmission(s) ==
  /\ req[s].kind = "submit"
  /\ ~AuthRejects(req[s].authorization)
  /\ GetTopicBySlug(req[s].topic_slug) # NoTopic
  /\ req[s].answers = Array(<<>>)

\* C2: an empty answers array is answered 400 (not 200 with a NaN percentage,
\* and not 500 unless a query failed), and no QuizAttempt is created.
C2_EmptyAnswersRejected ==
  \A s \in Slots :
    EmptySubmission(s) =>
      /\ req[s].attempt_id = 0
      /\ (req[s].pc = "done" /\ ~QueryFailed(s))
           => req[s].res.status = 400

\* the stores that differ from qs only in correct_answer and explanation
Variants(qs) ==
  LET ids == { q.id : q \in qs }
      secret == [correct_answer : 0..3, explanation : {"e0", "e9"}]
  IN { { [q EXCEPT !.correct_answer = f[q.id].correct_answer,
                   !.explanation = f[q.id].explanation] : q \in qs } :
         f \in [ids -> secret] }

\* C3: the response of startQuiz carries, for each question, the fields id,
\* question, options and difficulty only, and it is a possible response over
\* every store that differs only in correct_answer / explanation values.
C3_StartHidesAnswers ==
  \A s \in Slots :
    (req[s].kind = "start" /\ req[s].pc = "done" /\ req[s].topic # NoTopic
       /\ ~QueryFailed(s)) =>
      /\ \A other \in Variants(questions) :
           req[s].res \in StartResponses(other, req[s].topic, ParseLimit(req[s].limit))
      /\ req[s].res.status = 200 =>
           \A i \in DOMAIN req[s].res.questions :
             DOMAIN req[s].res.questions[i] = {"id", "question", "options", "difficulty"}

\* a start response with two questions
C3_Witness ==
  \E s \in Slots :
    /\ req[s].kind = "start"
    /\ Answered(s, 200)
    /\ Len(req[s].res.questions) = 2

\* C4: an answer whose question does not belong to the submitted topic yields
\* no detail record and no UserAnswer record (so it cannot add to the score).
C4_OtherTopicExcluded ==
  \A s \in Slots :
    Submitted200(s) =>
      /\ \A i \in DOMAIN req[s].res.result.answers :
           QuestionOf(req[s].res.result.answers[i].question_id).topic_id = req[s].topic.id
      /\ \A k \in DOMAIN user_answers :
           user_answers[k].attempt_id = req[s].attempt_id =>
             QuestionOf(user_answers[k].question_id).topic_id = req[s].topic.id

\* a submission that passes authentication, validation and topic resolution
\* and reads every item
Scorable(s) ==
  /\ req[s].kind = "submit"
  /\ ~AuthRejects(req[s].authorization)
  /\ req[s].topic_slug \notin {Undefined, ""}
  /\ req[s].answers.kind = "array"
  /\ GetTopicBySlug(req[s].topic_slug) # NoTopic
  /\ \A i \in DOMAIN req[s].answers.items : ~req[s].answers.items[i].isNull

\* C5: answers with an id absent from the fetched questions are skipped without
\* an error, and total_questions (in the result and in the stored attempt) is
\* the length of the submitted array.
C5_UnmatchedSkipped ==
  \A s \in Slots :
    /\ (Scorable(s) /\ req[s].pc = "done" /\ ~QueryFailed(s))
         => req[s].res.status = 200
    /\ Submitted200(s) =>
         LET r == req[s].res.result
             items == req[s].answers.items
         IN /\ r.total_questions = Len(items)
            /\ quiz_attempts[r.attempt_id].total_questions = Len(items)
            /\ Len(r.answers) = Len(MatchedItems(items))
            /\ \A i \in DOMAIN r.answers :
                 r.answers[i].question_id = MatchedItems(items)[i].question_id

\* a 200 result for two answers, one of them with an id unknown to the store
C5_Witness ==
  \E s \in Slots :
    /\ Submitted200(s)
    /\ Len(req[s].answers.items) = 2
    /\ \E i \in 1..2 : ~Stored(req[s].answers.items[i].question_id)
    /\ Len(req[s].res.result.answers) = 1
    /\ req[s].res.result.total_questions = 2

\* C6: the reported percentage is a number, and it is a nearest 2-decimal value
\* to 100 * score / total_questions.
C6_PercentageRounded ==
  \A s \in Slots :
    Submitted200(s) =>
      LET r == req[s].res.result
      IN /\ ~r.percentage.nan
         /\ 2 * Abs(r.percentage.hundredths * r.total_questions - 10000 * r.score)
              <= r.total_questions

\* C6 for the results with at least one submitted answer
C6_NonEmptyPercentageRounded ==
  \A s \in Slots :
    (Submitted200(s) /\ req[s].res.result.total_questions > 0) =>
      LET r == req[s].res.result
      IN /\ ~r.percentage.nan
         /\ 2 * Abs(r.percentage.hundredths * r.total_questions - 10000 * r.score)
              <= r.total_questions

\* the grade bands: lo <= percentage < hi
Bands ==
  { [grade |-> "A+", lo |-> 90, hi |-> 101], [grade |-> "A", lo |-> 80, hi |-> 90],
    [grade |-> "B+", lo |-> 70, hi |-> 80],  [grade |-> "B", lo |-> 60, hi |-> 70],
    [grade |-> "C", lo |-> 50, hi |-> 60],   [grade |-> "D", lo |-> 40, hi |-> 50],
    [grade |-> "F", lo |-> 0, hi |-> 40] }

\* C7: the grade is the one band that holds the percentage, a boundary value
\* belonging to the higher band.
C7_GradeBands ==
  \A s \in Slots :
    (Submitted200(s) /\ req[s].res.result.total_questions > 0) =>
      LET r == req[s].res.result
          holding == { b \in Bands : /\ b.lo * r.total_questions <= 100 * r.score
                                     /\ 100 * r.score < b.hi * r.total_questions }
      IN /\ Cardinality(holding) = 1
         /\ \A b \in holding : r.grade = b.grade

\* a result whose percentage is exactly the boundary lo, graded g
AtBoundary(lo, g) ==
  \E s \in Slots :
    /\ Submitted200(s)
    /\ req[s].res.result.total_questions > 0
    /\ 100 * req[s].res.result.score = lo * req[s].res.result.total_questions
    /\ req[s].res.result.grade = g

C7_Witness == AtBoundary(90, "A+")

C7_Boundary80 == AtBoundary(80, "A")
C7_Boundary70 == AtBoundary(70, "B+")
C7_Boundary60 == AtBoundary(60, "B")
C7_Boundary50 == AtBoundary(50, "C")
C7_Boundary40 == AtBoundary(40, "D")

\* C8: the detail records are the matched answers in order, is_correct holds
\* exactly when the selected answer equals the stored correct_answer, and the
\* score is the number of detail records with is_correct.
C8_ExactCorrectness ==
  \A s \in Slots :
    Submitted200(s) =>
      LET r == req[s].res.result
          matched == MatchedItems(req[s].answers.items)
      IN /\ Len(r.answers) = Len(matched)
         /\ \A i \in DOMAIN r.answers :
              /\ r.answers[i].question_id = matched[i].question_id
              /\ r.answers[i].selected_answer = matched[i].selected_answer
              /\ r.answers[i].is_correct <=>
                   (matched[i].selected_answer
                      = QuestionOf(matched[i].question_id).correct_answer)
         /\ r.score = Cardinality({ i \in DOMAIN r.answers : r.answers[i].is_correct })

\* a result with a right and a wrong answer
C8_Witness ==
  \E s \in Slots :
    /\ Submitted200(s)
    /\ \E i, j \in DOMAIN req[s].res.result.answers :
         /\ req[s].res.result.answers[i].is_correct
         /\ ~req[s].res.result.answers[j].is_correct
    /\ req[s].res.result.score = 1

\* a submission whose Authorization header is missing, not Bearer, empty, or
\* carries a token that is not one signed by the server
Unauthenticated(r) ==
  /\ r.kind = "submit"
  /\ \/ ~r.authorization.present
     \/ r.authorization.prefix # "Bearer "
     \/ r.authorization.token \notin { st[1] : st \in SignedTokens }

\* C9: an unauthenticated submission is answered 401 whatever its body, never
\* reaches validation or topic resolution, and no step of it writes a
\* QuizAttempt or UserAnswer row.
C9_UnauthenticatedRejected ==
  /\ [](\A s \in Slots :
          Unauthenticated(req[s]) =>
            /\ req[s].pc \in {"authenticate", "done"}
            /\ req[s].pc = "done" => req[s].res.status = 401
            /\ req[s].user = NoUser /\ req[s].topic = NoTopic /\ req[s].attempt_id = 0)
  /\ [][\A s \in Slots :
          (Unauthenticated(req'[s]) /\ req'[s] # req[s]) =>
            (quiz_attempts' = quiz_attempts /\ user_answers' = user_answers)]_vars

\* a forged token with a body that would otherwise be scored, answered 401
C9_Witness ==
  \E s \in Slots :
    /\ Unauthenticated(req[s])
    /\ req[s].authorization.token = "forged"
    /\ req[s].topic_slug = "javascript"
    /\ req[s].answers = Array(<<Answer("q1", 2)>>)
    /\ Answered(s, 401)

\* an authenticated submission without topic_slug, or whose answers field is
\* missing or not an array
Malformed(r) ==
  /\ r.kind = "submit"
  /\ ~Unauthenticated(r)
  /\ \/ r.topic_slug \in {Undefined, ""}
     \/ r.answers.kind # "array"

UnknownTopic(r) ==
  /\ r.kind = "submit"
  /\ ~Unauthenticated(r)
  /\ ~Malformed(r)
  /\ ~\E t \in topics : t.slug = r.topic_slug /\ t.is_active

\* C11: an authenticated, well-formed submission whose topic_slug names no topic
\* or an inactive topic is answered 404 (500 only when the topic query itself
\* rejects), never reaches scoring, and no step of it changes the attempt and
\* answer stores.
C11_UnknownTopicRejected ==
  /\ [](\A s \in Slots :
          UnknownTopic(req[s]) =>
            /\ req[s].pc \in {"authenticate", "submitQuiz", "getTopicBySlug", "done"}
            /\ (req[s].pc = "done" /\ ~QueryFailed(s)) => req[s].res.status = 404
            /\ req[s].topic = NoTopic /\ req[s].attempt_id = 0)
  /\ [][\A s \in Slots :
          (UnknownTopic(req'[s]) /\ req'[s] # req[s]) =>
            (quiz_attempts' = quiz_attempts /\ user_answers' = user_answers)]_vars

\* a submission with a scorable answer for the inactive topic, answered 404
C11_Witness ==
  \E s \in Slots :
    /\ UnknownTopic(req[s])
    /\ req[s].topic_slug = "archived"
    /\ req[s].answers = Array(<<Answer("q1", 2)>>)
    /\ Answered(s, 404)

\* a submission for a slug that no topic has, answered 404
C11_WitnessNoSuch ==
  \E s \in Slots :
    /\ UnknownTopic(req[s])
    /\ req[s].topic_slug = "nosuch"
    /\ Answered(s, 404)

\* the requests of two slots are submissions of the same answer set by the
\* same user for the same topic
SameSubmission(s, t) ==
  /\ s # t
  /\ req[s].kind = "submit" /\ req[t].kind = "submit"
  /\ req[s].authorization = req[t].authorization
  /\ req[s].topic_slug = req[t].topic_slug
  /\ req[s].answers = req[t].answers

\* the user_answers rows of an attempt, in the order of their insertion
AnswersOf(attemptId) ==
  SelectSeq(user_answers, LAMBDA row : row.attempt_id = attemptId)

\* C12: when the same answer set is submitted twice by the same user for the
\* same topic, the second submission is answered 200 like the first (500 only
\* when a query rejects), the two results name two distinct stored attempts
\* with the same score, total_questions and percentage, each with its own
\* answer rows, and no step changes the attempt of an answered submission.
C12_RepeatedSubmission ==
  /\ [](\A s, t \in Slots :
          (SameSubmission(s, t) /\ Submitted200(s)) =>
            /\ (req[t].pc = "done" /\ ~QueryFailed(t)) => Submitted200(t)
            /\ Submitted200(t) =>
                 LET a == req[s].res.result.attempt_id
                     b == req[t].res.result.attempt_id
                 IN /\ a # b
                    /\ a \in DOMAIN quiz_attempts /\ b \in DOMAIN quiz_attempts
                    /\ quiz_attempts[a].id = a /\ quiz_attempts[b].id = b
                    /\ quiz_attempts[a].score = quiz_attempts[b].score
                    /\ quiz_attempts[a].total_questions = quiz_attempts[b].total_questions
                    /\ quiz_attempts[a].percentage = quiz_attempts[b].percentage
                    /\ quiz_attempts[a].score = req[s].res.result.score
                    /\ req[s].res.result.score = req[t].res.result.score
                    /\ req[s].res.result.percentage = req[t].res.result.percentage
                    /\ Len(AnswersOf(a)) = Len(req[s].res.result.answers)
                    /\ Len(AnswersOf(b)) = Len(req[t].res.result.answers))
  /\ [][\A s \in Slots :
          Submitted200(s) =>
            LET a == req[s].res.result.attempt_id
            IN /\ a \in DOMAIN quiz_attempts'
               /\ quiz_attempts'[a] = quiz_attempts[a]
               /\ SelectSeq(user_answers', LAMBDA row : row.attempt_id = a)
                    = AnswersOf(a)]_vars

\* the array with a right answer was submitted twice and both submissions are
\* answered 200, with the attempts 1 and 2
C12_Witness ==
  /\ SameSubmission("r1", "r2")
  /\ req["r1"].answers = Array(<<Answer("q1", 2)>>)
  /\ Submitted200("r1") /\ Submitted200("r2")
  /\ {req["r1"].res.result.attempt_id, req["r2"].res.result.attempt_id} = {1, 2}
  /\ quiz_attempts[1].score = 1 /\ quiz_attempts[2].score = 1
  /\ Len(user_answers) = 2

\* the submission has passed createQuizAttempt
Persisted(s) ==
  /\ req[s].kind = "submit"
  /\ \/ req[s].pc = "saveUserAnswer"
     \/ Submitted200(s)
     \/ QueryFailed(s) /\ req[s].attempt_id # 0

\* C13: a submission that has passed createQuizAttempt has exactly one stored
\* attempt, of its own, and one that has not has none; a step inserts at most
\* one attempt, as the one attempt of the one request that is at
\* createQuizAttempt; an attempt once stored is never changed and never removed
\* by a step of any request (submitQuiz or startQuiz).
C13_AttemptCreatedOnce ==
  /\ [](\A s \in Slots :
          /\ Persisted(s) =>
               /\ Cardinality({ i \in DOMAIN quiz_attempts :
                                  quiz_attempts[i].id = req[s].attempt_id }) = 1
               /\ \A t \in Slots \ {s} : req[t].attempt_id # req[s].attempt_id
          /\ ~Persisted(s) => req[s].attempt_id = 0)
  /\ [][/\ \A i \in DOMAIN quiz_attempts :
            i \in DOMAIN quiz_attempts' /\ quiz_attempts'[i] = quiz_attempts[i]
        /\ Len(quiz_attempts') <= Len(quiz_attempts) + 1
        /\ Len(quiz_attempts') = Len(quiz_attempts) + 1 =>
             \E s \in Slots :
               /\ req[s].pc = "createQuizAttempt" /\ req[s].attempt_id = 0
               /\ req'[s].attempt_id = quiz_attempts'[Len(quiz_attempts')].id
               /\ \A t \in Slots \ {s} : req'[t] = req[t]
        /\ \A s \in Slots :
             (req[s].attempt_id # 0 /\ req'[s].pc # "idle") =>
               req'[s].attempt_id = req[s].attempt_id]_vars

\* a submission has stored the second attempt and is saving its answers, the
\* first attempt being in the store
C13_Witness ==
  \E s \in Slots :
    /\ req[s].pc = "saveUserAnswer"
    /\ req[s].attempt_id = 2
    /\ Len(quiz_attempts) = 2
    /\ quiz_attempts[1].id = 1 /\ quiz_attempts[2].id = 2

\* C14: no two user_answers rows of one attempt have the same question_id, and
\* a result counts a question at most once in its detail records and its score.
C14_OneAnswerPerQuestion ==
  /\ \A i, j \in DOMAIN user_answers :
       (/\ user_answers[i].attempt_id = user_answers[j].attempt_id
        /\ user_answers[i].question_id = user_answers[j].question_id) => i = j
  /\ \A s \in Slots :
       Submitted200(s) =>
         LET r == req[s].res.result
             ids == { r.answers[i].question_id : i \in DOMAIN r.answers }
         IN /\ Len(r.answers) = Cardinality(ids)
            /\ r.score <= Cardinality(ids)

\* the first n detail records as user_answers rows of the attempt
AnswerRows(attemptId, detailed, n) ==
  [i \in 1..n |-> [attempt_id |-> attemptId,
                   question_id |-> detailed[i].question_id,
                   selected_answer |-> detailed[i].selected_answer,
                   is_correct |-> detailed[i].is_correct]]

\* the saveUserAnswer of the submission was rejected
SaveFailed(s) == req[s].kind = "submit" /\ QueryFailed(s) /\ req[s].attempt_id # 0

\* C15: answer rows are written only for a stored attempt; the rows of an
\* attempt are the first detail records of its submission in submission
\* order, all of them once the 200 is sent; when the k-th saveUserAnswer is
\* rejected the request is answered 500 without a result, the step removes
\* nothing, the attempt and the first k-1 rows stay, and no step writes a row
\* for a submission that is not waiting for saveUserAnswer.
C15_NoRollback ==
  /\ [](/\ \A i \in DOMAIN user_answers :
             \E j \in DOMAIN quiz_attempts :
               quiz_attempts[j].id = user_answers[i].attempt_id
        /\ \A s \in Slots :
             (req[s].kind = "submit" /\ req[s].attempt_id # 0) =>
               LET a == req[s].attempt_id
                   n == Len(AnswersOf(a))
                   detailed == req[s].detailedAnswers
               IN /\ a \in DOMAIN quiz_attempts
                  /\ quiz_attempts[a].id = a
                  /\ quiz_attempts[a].score = req[s].correctCount
                  /\ n <= Len(detailed)
                  /\ AnswersOf(a) = AnswerRows(a, detailed, n)
                  /\ req[s].pc = "saveUserAnswer" => n < Len(detailed)
                  /\ Submitted200(s) => n = Len(detailed)
                  /\ SaveFailed(s) =>
                       /\ n < Len(detailed)
                       /\ req[s].res.status = 500
                       /\ "result" \notin DOMAIN req[s].res)
  /\ [][/\ \A s \in Slots :
            (req[s].pc = "saveUserAnswer" /\ req'[s].pc = "done"
               /\ req'[s].res.status = 500) =>
              (quiz_attempts' = quiz_attempts /\ user_answers' = user_answers)
        /\ \A i \in DOMAIN user_answers :
             i \in DOMAIN user_answers' /\ user_answers'[i] = user_answers[i]
        /\ user_answers' # user_answers =>
             \E s \in Slots :
               /\ req[s].pc = "saveUserAnswer"
               /\ Len(user_answers') = Len(user_answers) + 1
               /\ user_answers'[Len(user_answers')].attempt_id = req[s].attempt_id]_vars

\* the third saveUserAnswer of a submission was rejected: the attempt and two
\* answer rows are in the store
C15_Witness ==
  \E s \in Slots :
    /\ SaveFailed(s)
    /\ Len(req[s].detailedAnswers) >= 3
    /\ Len(AnswersOf(req[s].attempt_id)) = 2
    /\ Len(quiz_attempts) = 1

\* C16: every stored attempt has 0 <= score <= total_questions and a percentage
\* that is a number, a nearest 2-decimal value to 100 * score / total_questions.
C16_StoredAttemptInvariant ==
  \A i \in DOMAIN quiz_attempts :
    LET row == quiz_attempts[i]
    IN /\ 0 <= row.score /\ row.score <= row.total_questions
       /\ ~row.percentage.nan
       /\ 2 * Abs(row.percentage.hundredths * row.total_questions - 10000 * row.score)
            <= row.total_questions

\* C16 for the stored attempts of submissions with at least one answer
C16_NonEmptyStoredInvariant ==
  \A i \in DOMAIN quiz_attempts :
    LET row == quiz_attempts[i]
    IN row.total_questions > 0 =>
         /\ 0 <= row.score /\ row.score <= row.total_questions
         /\ ~row.percentage.nan
         /\ 2 * Abs(row.percentage.hundredths * row.total_questions - 10000 * row.score)
              <= row.total_questions

\* the number p (a ratio, or NaN) and the 2-decimal number f are the same value
\* in the JSON body (NaN is written as null)
SameNumber(p, f) ==
  IF p.nan \/ f.nan THEN p.nan /\ f.nan
  ELSE 100 * p.num = f.hundredths * p.den

\* C17: in every result, topic_analysis.correct, .total and .percentage are
\* the same values as score, total_questions and percentage of the result.
C17_TopicAnalysisIdentical ==
  \A s \in Slots :
    Submitted200(s) =>
      LET r == req[s].res.result
      IN /\ r.topic_analysis.correct = r.score
         /\ r.topic_analysis.total = r.total_questions
         /\ SameNumber(r.topic_analysis.percentage, r.percentage)

\* C17 without the percentage: the counts of topic_analysis are the counts of
\* the result
C17_TopicAnalysisCounts ==
  \A s \in Slots :
    Submitted200(s) =>
      LET r == req[s].res.result
      IN /\ r.topic_analysis.correct = r.score
         /\ r.topic_analysis.total = r.total_questions
         /\ r.topic_analysis.percentage = Percentage(r.score, r.total_questions)

\* the active topics with the slug
ActiveTopics(slug) == { t \in topics : t.slug = slug /\ t.is_active }

\* the start request of the slot was answered, and not by the catch block
\* after a rejected query
StartAnswered(s) == req[s].kind = "start" /\ req[s].pc = "done" /\ ~QueryFailed(s)

C18_WitnessInactive ==
  \E s \in Slots :
    /\ StartAnswered(s)
    /\ req[s].topic_slug = "archived"
    /\ req[s].res.status = 404

\* a start request for a slug of no topic, answered 404
C18_WitnessNoSuch ==
  \E s \in Slots :
    /\ StartAnswered(s)
    /\ req[s].topic_slug = "nosuch"
    /\ req[s].res.status = 404

\* the query strings that are positive numbers, with their value
PositiveLimit == ("1" :> 1) @@ ("2" :> 2) @@ ("3" :> 3)

\* the limit of a start request: its query parameter when that is a positive
\* number, otherwise 10
RequestedLimit(v) == IF v \in DOMAIN PositiveLimit THEN PositiveLimit[v] ELSE 10

\* C19: a 200 response of startQuiz has at most `limit` questions (10 when the
\* parameter is absent or not a positive number), each a stored question of
\* the topic the slug resolves to, none of them twice, total_questions is
\* their number, and time_per_question is 30.
C19_StartResponseShape ==
  \A s \in Slots :
    (req[s].kind = "start" /\ Answered(s, 200)) =>
      LET res == req[s].res
      IN /\ Len(res.questions) <= RequestedLimit(req[s].limit)
         /\ Len(res.questions) >= 1
         /\ res.topic.slug = req[s].topic_slug
         /\ \E t \in ActiveTopics(req[s].topic_slug) : t.id = res.topic.id
         /\ \A i \in DOMAIN res.questions :
              /\ Stored(res.questions[i].id)
              /\ QuestionOf(res.questions[i].id).topic_id = res.topic.id
              /\ res.questions[i].question = QuestionOf(res.questions[i].id).question
         /\ \A i, j \in DOMAIN res.questions :
              res.questions[i].id = res.questions[j].id => i = j
         /\ res.total_questions = Len(res.questions)
         /\ res.time_per_question = 30

\* limit=1 for a topic with two questions: a 200 response with one question
C19_Witness ==
  \E s \in Slots :
    /\ req[s].kind = "start" /\ Answered(s, 200)
    /\ req[s].limit = "1"
    /\ Cardinality({ q \in questions : q.topic_id = req[s].res.topic.id }) = 2
    /\ Len(req[s].res.questions) = 1

\* limit=0 and limit=abc are not positive numbers: a 200 response with the two
\* questions of the topic
C19_WitnessDefault ==
  \E s, t \in Slots :
    /\ req[s].kind = "start" /\ Answered(s, 200)
    /\ req[t].kind = "start" /\ Answered(t, 200)
    /\ req[s].limit = "0" /\ req[t].limit = "abc"
    /\ Len(req[s].res.questions) = 2 /\ Len(req[t].res.questions) = 2

\* a start request with limit=-1 is never answered 200
C19_NegativeLimitFails ==
  \A s \in Slots :
    (req[s].kind = "start" /\ req[s].limit = "-1" /\ req[s].pc = "done")
      => req[s].res.status \in {404, 500}

\* a submission for "javascript" with exactly one answer for each seeded
\* JavaScript question, each selecting the correct_answer of the seed
AllCorrectSeeded(r) ==
  /\ r.kind = "submit"
  /\ ~Unauthenticated(r)
  /\ r.topic_slug = "javascript"
  /\ r.answers.kind = "array"
  /\ Len(r.answers.items) = Len(JsIds)
  /\ \A i \in DOMAIN JsIds :
       \E k \in DOMAIN r.answers.items :
         /\ r.answers.items[k].question_id = JsIds[i]
         /\ r.answers.items[k].selected_answer = JsCorrect[i]

\* C20: over the seeded questions, the submission with the correct answer for
\* each of the 10 JavaScript questions is answered 200 (500 only when a query
\* rejects) with score 10, total_questions 10, percentage 100.00 and grade
\* "A+", and the stored attempt has the same numbers.
C20_SeededAllCorrect ==
  \A s \in Slots :
    AllCorrectSeeded(req[s]) =>
      /\ (req[s].pc = "done" /\ ~QueryFailed(s)) => Submitted200(s)
      /\ Submitted200(s) =>
           LET r == req[s].res.result
           IN /\ r.score = 10
              /\ r.total_questions = 10
              /\ r.percentage = [nan |-> FALSE, hundredths |-> 10000]
              /\ r.grade = "A+"
              /\ quiz_attempts[r.attempt_id].score = 10
              /\ quiz_attempts[r.attempt_id].total_questions = 10
              /\ quiz_attempts[r.attempt_id].percentage
                   = [nan |-> FALSE, hundredths |-> 10000]

\* the all-correct submission in the order of the seed, answered 200
C20_Witness ==
  \E s \in Slots :
    /\ AllCorrectSeeded(req[s])
    /\ req[s].answers.items[1].question_id = "js1"
    /\ Submitted200(s)
    /\ Len(user_answers) = 10

\* one wrong answer among the ten gives 9 of 10, 90.00 and still "A+"
C20_OneWrong ==
  \A s \in Slots :
    (Submitted200(s) /\ ~AllCorrectSeeded(req[s]) /\ Len(req[s].answers.items) = 10
       /\ req[s].res.result.score = 9) =>
      /\ req[s].res.result.percentage = [nan |-> FALSE, hundredths |-> 9000]
      /\ req[s].res.result.grade = "A+"

\* a signup whose fields pass the validation
ValidSignup(r) ==
  /\ r.kind = "signup"
  /\ ~Falsy(r.username) /\ ~Falsy(r.email) /\ ~Falsy(r.password)
  /\ IsValidEmail(r.email) /\ IsValidUsername(r.username)
  /\ IsValidPassword(r.password)

\* the users row the signup of the slot created, if it created one
CreatedBy(s) ==
  IF req[s].pc = "done" /\ req[s].res.status = 201 THEN {req[s].res.user} ELSE {}

\* C21: no two users have the same email or the same username, and an
\* answered valid signup whose email or username is that of a user it did not
\* create itself was answered 409 (500 only when a query failed in the store).
C21_DuplicateSignupConflict ==
  /\ \A u, v \in users :
       (u.email = v.email \/ u.username = v.username) => u = v
  /\ \A s \in Slots :
       (ValidSignup(req[s]) /\ req[s].pc = "done" /\ ~QueryFailed(s)
          /\ \E u \in users \ CreatedBy(s) :
               u.email = req[s].email \/ u.username = req[s].username)
         => req[s].res.status = 409

\* the part of C21 that holds: the users rows are unique in email and in
\* username, and a step that answers a signup with a status other than 201
\* creates no user
C21_NoDuplicateUser ==
  /\ [](\A u, v \in users :
          (u.email = v.email \/ u.username = v.username) => u = v)
  /\ [][\A s \in Slots :
          (req'[s].kind = "signup" /\ req[s].pc # "done" /\ req'[s].pc = "done"
             /\ req'[s].res.status # 201) => users' = users]_vars

\* the result of the submission r when it runs alone, with the attempt id it
\* was given
AloneResult(r, attemptId) ==
  LET items == r.answers.items
      fetched == GetQuestionsByIds({ items[i].question_id : i \in DOMAIN items })
      detailed == DetailedAnswers(items, fetched)
      percentage == Percentage(CountCorrect(detailed), Len(items))
  IN [attempt_id |-> attemptId,
      score |-> CountCorrect(detailed),
      total_questions |-> Len(items),
      percentage |-> ToFixed2(percentage),
      grade |-> GradeOf(percentage),
      answers |-> detailed,
      topic_analysis |-> [topic |-> GetTopicBySlug(r.topic_slug).name,
                          correct |-> CountCorrect(detailed),
                          total |-> Len(items),
                          percentage |-> percentage]]

\* C22: whatever the interleaving of the submissions, a 200 result is the
\* result of the submission run alone, the attempts of two requests are two
\* rows, the attempt of a request holds the numbers and the user of that
\* request, the user_answers rows of the attempt are the detail records of
\* that request in order, and every row belongs to a stored attempt.
C22_ConcurrentSubmitsIndependent ==
  /\ \A s \in Slots :
       Submitted200(s) =>
         /\ req[s].res.result = AloneResult(req[s], req[s].attempt_id)
         /\ AnswersOf(req[s].attempt_id)
              = AnswerRows(req[s].attempt_id, req[s].res.result.answers,
                           Len(req[s].res.result.answers))
  /\ \A s \in Slots :
       (req[s].kind = "submit" /\ req[s].attempt_id # 0) =>
         LET a == req[s].attempt_id
             n == Len(AnswersOf(a))
         IN /\ \A t \in Slots \ {s} : req[t].attempt_id # a
            /\ a \in DOMAIN quiz_attempts
            /\ quiz_attempts[a] =
                 [id |-> a, user_id |-> req[s].user.userId,
                  topic_id |-> req[s].topic.id, score |-> req[s].correctCount,
                  total_questions |-> Len(req[s].answers.items),
                  percentage |-> ToFixed2(req[s].percentage)]
            /\ n <= Len(req[s].detailedAnswers)
            /\ AnswersOf(a) = AnswerRows(a, req[s].detailedAnswers, n)
  /\ \A i \in DOMAIN user_answers :
       user_answers[i].attempt_id \in DOMAIN quiz_attempts

\* two submissions overlapped: the answer rows of attempt 1 lie on both sides
\* of the answer row of attempt 2, and both submissions are answered 200
C22_Witness ==
  /\ Submitted200("r1") /\ Submitted200("r2")
  /\ req["r1"].answers # req["r2"].answers
  /\ Len(user_answers) = 3
  /\ user_answers[1].attempt_id = 1
  /\ user_answers[2].attempt_id = 2
  /\ user_answers[3].attempt_id = 1

\* C23: a request in flight is eventually answered; an answer, once sent, is
\* not replaced by another one; a step in which a query of the request is
\* rejected answers it 500 with the message of the controller and the error.
C23_ExactlyOneResponse ==
  /\ \A s \in Slots : (req[s].pc \notin {"idle", "done"}) ~> (req[s].pc = "done")
  /\ [](\A s \in Slots :
          req[s].pc = "done" => req[s].res.status \in {200, 400, 401, 404, 500})
  /\ [][\A s \in Slots :
          /\ req[s].pc = "done" => (req'[s] = req[s] \/ req'[s] = Idle)
          /\ QueryFails(s) =>
               /\ req'[s].pc = "done"
               /\ req'[s].res.status = 500
               /\ req'[s].res.message = FailedMessage(req[s].kind)
               /\ req'[s].res.error # None]_vars

\* the second saveUserAnswer of the submission was rejected and it is
\* answered 500 while the start request is answered 200
C23_Witness ==
  /\ QueryFailed("r1")
  /\ req["r1"].attempt_id = 1 /\ Len(user_answers) = 1
  /\ req["r2"].kind = "start" /\ Answered("r2", 200)

\* the limit of a history request: its query parameter when that is a positive
\* number, otherwise 10
HistoryLimit(v) == IF v \in DOMAIN PositiveLimit THEN PositiveLimit[v] ELSE 10

\* the attempts stored for a user
OwnedBy(userId) ==
  { i \in DOMAIN quiz_attempts : quiz_attempts[i].user_id = userId }

\* C24: a 200 response of getQuizHistory holds only attempts of the user of
\* the verified token, at most `limit` of them (10 by default), each of them
\* once, in descending order of completion; when it is sent it holds the
\* min(limit, n) latest of the n attempts stored for the caller, the latest
\* one first.
C24_HistoryOwnNewestFirst ==
  /\ [](\A s \in Slots :
          (req[s].kind = "history" /\ Answered(s, 200)) =>
            LET h == req[s].res.history
                caller == VerifyToken(req[s].authorization.token).userId
            IN /\ caller # None
               /\ Len(h) <= HistoryLimit(req[s].limit)
               /\ req[s].res.count = Len(h)
               /\ \A i \in DOMAIN h :
                    /\ h[i].user_id = caller
                    /\ h[i].id \in OwnedBy(caller)
                    /\ h[i].score = quiz_attempts[h[i].id].score
                    /\ \E t \in topics : /\ t.id = quiz_attempts[h[i].id].topic_id
                                         /\ t.name = h[i].topic_name
                                         /\ t.slug = h[i].topic_slug
               /\ \A i, j \in DOMAIN h :
                    i < j => h[i].completed_at > h[j].completed_at)
  /\ [][\A s \in Slots :
          (req[s].pc # "done" /\ req'[s].kind = "history" /\ req'[s].pc = "done"
             /\ req'[s].res.status = 200) =>
            LET h == req'[s].res.history
                own == OwnedBy(req[s].user.userId)
            IN /\ Len(h) = Min(HistoryLimit(req[s].limit), Cardinality(own))
               /\ \A i \in DOMAIN h :
                    Cardinality({ k \in own : k > h[i].id }) = i - 1]_vars

\* two attempts of u1 and then one of u2 are stored; the history of u1 with
\* limit=1 holds the second attempt of u1
C24_Witness ==
  /\ Len(quiz_attempts) = 3
  /\ quiz_attempts[1].user_id = "u1" /\ quiz_attempts[2].user_id = "u1"
  /\ quiz_attempts[3].user_id = "u2"
  /\ req["r2"].kind = "history" /\ Answered("r2", 200)
  /\ req["r2"].limit = "1"
  /\ Len(req["r2"].res.history) = 1
  /\ req["r2"].res.history[1].id = 2

\* limit=0 is answered with the default of 10: both attempts of the caller
C24_WitnessDefault ==
  /\ req["r2"].kind = "history" /\ Answered("r2", 200)
  /\ req["r2"].limit = "0"
  /\ Len(req["r2"].res.history) = 2

\* the position of a step of submitQuiz in the order authentication check,
\* shape validation, topic resolution, question fetch and scoring, persistence
\* of the attempt, persistence of the answers, response
StepOrder ==
  [pc \in {"authenticate", "submitQuiz", "getTopicBySlug", "getQuestionsByIds",
           "createQuizAttempt", "saveUserAnswer", "done"} |->
     CASE pc = "authenticate" -> 1
       [] pc = "submitQuiz" -> 2
       [] pc = "getTopicBySlug" -> 3
       [] pc = "getQuestionsByIds" -> 4
       [] pc = "createQuizAttempt" -> 5
       [] pc = "saveUserAnswer" -> 6
       [] pc = "done" -> 7]

\* C25: a submitQuiz request takes its steps in the order authentication
\* check, shape validation, topic resolution, question fetch, scoring,
\* persistence, response, each step being followed by the next one or by the
\* response; the 200 is sent by the last persistence step, and whenever a
\* request is answered 200 the store holds the attempt of the result and, for
\* it, exactly one UserAnswer row per detail record of the result, in order.
C25_ResponseAfterPersistence ==
  /\ [](\A s \in Slots :
          Submitted200(s) =>
            LET result == req[s].res.result
            IN /\ result.attempt_id \in DOMAIN quiz_attempts
               /\ quiz_attempts[result.attempt_id].id = result.attempt_id
               /\ AnswersOf(result.attempt_id) =
                    AnswerRows(result.attempt_id, result.answers, Len(result.answers)))
  /\ [][\A s \in Slots :
          (req[s].kind = "submit" /\ req'[s] # req[s] /\ req[s].pc # "done") =>
            /\ req'[s].pc \in DOMAIN StepOrder
            /\ \/ StepOrder[req'[s].pc] = StepOrder[req[s].pc] + 1
               \/ req'[s].pc = "done"
            /\ req'[s].res.status = 200 =>
                 /\ req[s].pc \in {"createQuizAttempt", "saveUserAnswer"}
                 /\ req[s].attempt_id = 0 => req[s].detailedAnswers = <<>>
                 /\ quiz_attempts' # <<>>]_vars

\* a submission with two detail records is answered 200 while the other
\* request has stored an attempt of its own
C25_Witness ==
  \E s, t \in Slots :
    /\ Submitted200(s)
    /\ Len(req[s].res.result.answers) = 2
    /\ Len(AnswersOf(req[s].res.result.attempt_id)) = 2
    /\ req[t].kind = "submit" /\ req[t].attempt_id \notin {0, req[s].attempt_id}

\* the number of user_answers rows of an attempt with is_correct true
CorrectRows(attemptId) ==
  Cardinality({ i \in DOMAIN user_answers :
                  /\ user_answers[i].attempt_id = attemptId
                  /\ user_answers[i].is_correct })

\* C26: for the attempt of every submitQuiz request that is answered 200, the
\* stored score is the number of its UserAnswer rows with is_correct true,
\* and the stored score, total_questions and id are those of the result.
C26_PersistedMatchesResult ==
  \A s \in Slots :
    Submitted200(s) =>
      LET result == req[s].res.result
          stored == { i \in DOMAIN quiz_attempts :
                        quiz_attempts[i].id = result.attempt_id }
      IN /\ Cardinality(stored) = 1
         /\ \A i \in stored :
              /\ quiz_attempts[i].score = CorrectRows(quiz_attempts[i].id)
              /\ quiz_attempts[i].score = result.score
              /\ quiz_attempts[i].total_questions = result.total_questions

\* two submissions answered 200: one with two right answers stored, one with
\* a wrong answer and an unknown id (score 0 of 2, one row)
C26_Witness ==
  \E s, t \in Slots :
    /\ Submitted200(s) /\ Submitted200(t)
    /\ req[s].res.result.score = 2
    /\ CorrectRows(req[s].res.result.attempt_id) = 2
    /\ req[t].res.result.score = 0
    /\ req[t].res.result.total_questions = 2
    /\ Saved(req[t].res.result.attempt_id) = 1

\* the userId of the verified token of a request
TokenUser(s) == VerifyToken(req[s].authorization.token).userId

\* C27: a step of a submitQuiz request that stores an attempt stores it with
\* the userId of the verified token of that request as user_id, whatever the
\* body holds, and the attempt of a request in flight keeps that user_id; a
\* request whose token is not verified stores nothing.
C27_AttemptOwnedByTokenUser ==
  /\ [](\A s \in Slots :
          (req[s].kind = "submit" /\ req[s].attempt_id # 0) =>
            /\ TokenUser(s) # None
            /\ quiz_attempts[req[s].attempt_id].user_id = TokenUser(s))
  /\ [][\A i \in DOMAIN quiz_attempts' :
          i \notin DOMAIN quiz_attempts =>
            \E s \in Slots :
              /\ req[s].kind = "submit" /\ req[s].pc = "createQuizAttempt"
              /\ req'[s].attempt_id = quiz_attempts'[i].id
              /\ ~AuthRejects(req[s].authorization)
              /\ quiz_attempts'[i].user_id = TokenUser(s)]_vars

\* both users submit with the id of the other one in the body: each attempt
\* is stored for the user of the token
C27_Witness ==
  /\ Submitted200("r1") /\ req["r1"].body_user_id = "u2"
  /\ quiz_attempts[req["r1"].attempt_id].user_id = "u1"
  /\ Submitted200("r2") /\ req["r2"].body_user_id = "u1"
  /\ quiz_attempts[req["r2"].attempt_id].user_id = "u2"

\* the band of a percentage given with 2 decimals, in hundredths
GradeOfReported(reported) ==
  IF reported.nan THEN "F"
  ELSE GradeOf([nan |-> FALSE, num |-> reported.hundredths, den |-> 100])

C28_WitnessExact ==
  \E s \in Slots :
    /\ Submitted200(s)
    /\ req[s].res.result.total_questions = 10
    /\ req[s].res.result.percentage = [nan |-> FALSE, hundredths |-> 7000]
    /\ req[s].res.result.grade = "B+"

\* a header that is missing, is not a Bearer header, has an empty token, or has
\* a token that was not signed by the server
BadHeader(hdr) ==
  \/ ~hdr.present
  \/ hdr.prefix # "Bearer "
  \/ hdr.token = ""
  \/ hdr.token \notin { st[1] : st \in SignedTokens }

\* the first step of the controller behind authenticate: next() was called
Controller == {"submitQuiz", "getQuizHistory"}

\* C29: the step of authenticate either sets req.user to the payload of the
\* verified token and passes the request on to the controller without a
\* response, or answers 401 and the controller is never entered; the
\* controller is entered only by that step, and a request whose header is
\* missing, not Bearer, empty or unverifiable is never past authenticate
\* other than answered 401.
C29_AuthenticateEitherOr ==
  /\ [](\A s \in Slots :
          (req[s].pc \notin {"idle", "authenticate"} /\ req[s].kind \in {"submit", "history"}) =>
            IF BadHeader(req[s].authorization)
            THEN Answered(s, 401) /\ req[s].user = NoUser
            ELSE /\ req[s].user.userId \in { st[2] : st \in SignedTokens }
                 /\ <<req[s].authorization.token, req[s].user.userId>> \in SignedTokens
                 /\ ~Answered(s, 401))
  /\ [][\A s \in Slots :
          /\ (req[s].pc = "authenticate" /\ req'[s] # req[s]) =>
               \/ /\ req'[s].pc \in Controller
                  /\ req'[s].res = NoRes
                  /\ req'[s].user # NoUser
               \/ /\ req'[s].pc = "done"
                  /\ req'[s].res.status = 401
                  /\ req'[s].user = NoUser
          /\ (req'[s].pc \in Controller /\ req'[s] # req[s]) =>
               req[s].pc = "authenticate"]_vars

\* the request with the token of u1 is passed on to submitQuiz with req.user
\* set and no response
C29_Witness ==
  \E s \in Slots :
    /\ req[s].pc = "submitQuiz"
    /\ req[s].authorization = Header("Bearer ", "tok-u1")
    /\ req[s].user = [userId |-> "u1"]
    /\ req[s].res = NoRes

\* the request with an empty token is answered 401
C29_WitnessEmptyToken ==
  \E s \in Slots :
    /\ req[s].authorization = Header("Bearer ", "")
    /\ Answered(s, 401)
    /\ req[s].user = NoUser

\* every seeded topic is stored once, with each of its 10 seeded questions
\* once and no other question
SeededCompletely ==
  \A k \in DOMAIN SeedTopicList :
    /\ Cardinality({ t \in topics : t.slug = SeedTopicList[k].slug }) = 1
    /\ \A t \in topics :
         t.slug = SeedTopicList[k].slug =>
           /\ Cardinality({ q \in questions : q.topic_id = t.id }) = QuestionsPerTopic
           /\ \A i \in 1..QuestionsPerTopic :
                Cardinality({ q \in questions :
                                /\ q.topic_id = t.id
                                /\ q.question = <<SeedTopicList[k].slug, i>>
                                /\ q.correct_answer = SeedCorrect[k][i] }) = 1

\* a run of seedDatabase on a store that has topics inserts nothing
C30_SkipChangesNothing ==
  [][(seeding.pc = "countTopics" /\ topics # {}) =>
       (topics' = topics /\ questions' = questions
          /\ seeding'.pc \in {"listening", "stopped"})]_vars

\* C30: a run of seedDatabase on a store that has topics changes no row, and
\* whenever a start of the server has got past seedDatabase (after any
\* sequence of earlier starts, failed or not) every seeded topic is stored
\* with its 10 seeded questions exactly once.
C30_SeededOnceCompletely ==
  /\ [](seeding.pc = "listening" => SeededCompletely)
  /\ C30_SkipChangesNothing

\* the first start completes the seeding and the second start skips it
C30_SeededAndSkipped ==
  /\ seeding.pc = "listening" /\ seeding.runs = 2
  /\ SeededCompletely

====
